---------------------------- MODULE Spec2Model ----------------------------
(***************************************************************************)
(* Model of the entry codecs of package dsio (src/dsio/json.go): the       *)
(* document writer (JSONWriter), the document reader (JSONReader) with its *)
(* bufio look-ahead buffer, and the values they exchange.                  *)
(*                                                                         *)
(* Bytes are one-character strings, byte streams are sequences of them.    *)
(* A Go value of type interface{} is a record [k |-> kind, v |-> payload]. *)
(***************************************************************************)
EXTENDS Integers, Sequences, FiniteSets, TLC

VARIABLES
    pc,         \* "write": writer session open; "closed": Close returned;
                \* "read": a reader session is running
    w,          \* JSONWriter fields: rowsWritten, tlt, keysWritten
    out,        \* bytes the output stream (w.wr) has accepted
    sink,       \* the output stream: writes seen so far, the one it rejects
    wlog,       \* history: one record per WriteEntry / Close call
    cfg,        \* reader construction: input stream, buffer size, chunking, tlt
    rd,         \* JSONReader fields together with the bufio.Reader state
    results,    \* history: one record per ReadEntry call
    st,         \* the structure the tabular codecs are built on
    cw,         \* CSVWriter fields together with its csv.Writer's buffer
    cr,         \* CSVReader fields together with its csv.Reader's state
    inst        \* codec instances living side by side, each on its own stream

vars == <<pc, w, out, sink, wlog, cfg, rd, results, st, cw, cr, inst>>

---------------------------------------------------------------------------
(* Bounds of the model *)

MaxEntries == 3     \* WriteEntry calls per writer session
MaxReads == 4       \* ReadEntry calls per reader session
MaxBufSize == 17    \* largest look-ahead buffer size tried
MaxPad == 16        \* longest run of white space put before a document
MaxFailAt == 2      \* latest write the output stream may reject
MaxRows == 2        \* WriteEntry calls per tabular writer session
MaxFilterLen == 3   \* longest input of the line-ending filter
MaxReadLen == 3     \* largest caller buffer handed to the filter's Read
MaxEmptyReads == 1  \* Read calls with an empty buffer per filter session
MaxPairCalls == 2   \* WriteEntry calls per instance of a pair of writers

---------------------------------------------------------------------------
(* Sequence helpers *)

Chars(s) == [i \in 1..Len(s) |-> SubSeq(s, i, i)]

Min(a, b) == IF a < b THEN a ELSE b

Prefix(s, n) == SubSeq(s, 1, n)

Drop(s, n) == SubSeq(s, n + 1, Len(s))

IsPrefix(p, s) == Len(p) <= Len(s) /\ SubSeq(s, 1, Len(p)) = p

\* F applied to val: the result of a call held in a local variable, as in
\* `buff := r.currentBuffer()`, for the statements F that follow
Bind(val, F(_)) == F(val)

RECURSIVE Repeat(_, _)
Repeat(ch, n) == IF n = 0 THEN <<>> ELSE <<ch>> \o Repeat(ch, n - 1)

\* Byte order of the characters the model uses (for sorting map keys).
ByteOrder == Chars("\t\n\r \"+,-./0123456789:<EU[\\]abcdefklnrstux{}")

Code(ch) == CHOOSE i \in 1..Len(ByteOrder) : ByteOrder[i] = ch

RECURSIVE StrLess(_, _)
StrLess(a, b) ==
    IF b = <<>> THEN FALSE
    ELSE IF a = <<>> THEN TRUE
    ELSE IF a[1] = b[1] THEN StrLess(Tail(a), Tail(b))
    ELSE Code(a[1]) < Code(b[1])

---------------------------------------------------------------------------
(* Values (Go interface{}): a kind k and a payload v.  TLC orders the fields *)
(* of a record by their first appearance in the module, so k is written      *)
(* before v wherever both appear: values of different kinds are then told    *)
(* apart by kind, and payloads of different types are never compared.        *)

VNull == [k |-> "null", v |-> 0]
VBool(b) == [k |-> "bool", v |-> b]
VInt(n) == [k |-> "int", v |-> n]
\* a float64 with the decimal value m * 10^e, m not divisible by 10
VFloat(m, e) == [k |-> "float", v |-> <<m, e>>]
VStr(s) == [k |-> "str", v |-> Chars(s)]
VArr(vs) == [k |-> "arr", v |-> vs]
\* a map[string]interface{}: pairs <<key, value>>, keys distinct and sorted
VObj(ps) == [k |-> "obj", v |-> ps]
\* a float64 NaN: a value encoding/json refuses
VNaN == [k |-> "nan", v |-> 0]

ZeroEntry == [key |-> <<>>, index |-> 0, value |-> VNull]

---------------------------------------------------------------------------
(* encoding/json.Marshal, as the writer uses it *)

Digit(d) == Chars("0123456789")[d + 1]

RECURSIVE NatStr(_)
NatStr(n) == IF n < 10 THEN <<Digit(n)>> ELSE NatStr(n \div 10) \o <<Digit(n % 10)>>

IntStr(n) == IF n < 0 THEN <<"-">> \o NatStr(-n) ELSE NatStr(n)

\* strconv.FormatFloat(f, 'f', -1, 64) for |f| < 1e21, 'e' format from 1e21 on
\* (encoding/json floatEncoder); f = m * 10^e.
FloatStr(m, e) ==
    LET sign == IF m < 0 THEN <<"-">> ELSE <<>>
        ds == NatStr(IF m < 0 THEN -m ELSE m)
        n == Len(ds)
    IN  IF e >= 0 /\ n + e > 21
          THEN sign \o <<ds[1]>> \o (IF n > 1 THEN <<".">> \o Drop(ds, 1) ELSE <<>>)
                    \o <<"e", "+">> \o NatStr(e + n - 1)
        ELSE IF e >= 0 THEN sign \o ds \o Repeat("0", e)
        ELSE IF n > -e THEN sign \o Prefix(ds, n + e) \o <<".">> \o Drop(ds, n + e)
        ELSE sign \o <<"0", ".">> \o Repeat("0", -e - n) \o ds

\* encoding/json string escaping (escapeHTML on, as in json.Marshal)
EscapeChar(ch) ==
    CASE ch = "\"" -> <<"\\", "\"">>
      [] ch = "\\" -> <<"\\", "\\">>
      [] ch = "\n" -> <<"\\", "n">>
      [] ch = "\r" -> <<"\\", "r">>
      [] ch = "\t" -> <<"\\", "t">>
      [] ch = "<"  -> Chars("\\u003c")
      [] OTHER -> <<ch>>

RECURSIVE Escape(_)
Escape(s) == IF s = <<>> THEN <<>> ELSE EscapeChar(s[1]) \o Escape(Tail(s))

Quote(s) == <<"\"">> \o Escape(s) \o <<"\"">>

\* json.Marshal(v): [ok |-> no error, data |-> the bytes]
RECURSIVE Marshal(_), MarshalElems(_), MarshalPairs(_)
Marshal(val) ==
    CASE val.k = "null"  -> [ok |-> TRUE, data |-> Chars("null")]
      [] val.k = "bool"  -> [ok |-> TRUE, data |-> IF val.v THEN Chars("true") ELSE Chars("false")]
      [] val.k = "int"   -> [ok |-> TRUE, data |-> IntStr(val.v)]
      [] val.k = "float" -> [ok |-> TRUE, data |-> FloatStr(val.v[1], val.v[2])]
      [] val.k = "str"   -> [ok |-> TRUE, data |-> Quote(val.v)]
      [] val.k = "arr"   ->
            LET es == MarshalElems(val.v)
            IN  [ok |-> es.ok, data |-> <<"[">> \o es.data \o <<"]">>]
      [] val.k = "obj"   ->
            LET ps == MarshalPairs(val.v)
            IN  [ok |-> ps.ok, data |-> <<"{">> \o ps.data \o <<"}">>]
      [] OTHER -> [ok |-> FALSE, data |-> <<>>]

MarshalElems(vs) ==
    IF vs = <<>> THEN [ok |-> TRUE, data |-> <<>>]
    ELSE LET h == Marshal(vs[1])
             t == MarshalElems(Tail(vs))
         IN  [ok |-> h.ok /\ t.ok,
              data |-> h.data \o (IF Len(vs) > 1 THEN <<",">> ELSE <<>>) \o t.data]

MarshalPairs(ps) ==
    IF ps = <<>> THEN [ok |-> TRUE, data |-> <<>>]
    ELSE LET h == Marshal(ps[1][2])
             t == MarshalPairs(Tail(ps))
         IN  [ok |-> h.ok /\ t.ok,
              data |-> Quote(ps[1][1]) \o <<":">> \o h.data
                       \o (IF Len(ps) > 1 THEN <<",">> ELSE <<>>) \o t.data]

---------------------------------------------------------------------------
(* The output stream handed to NewJSONWriter (an io.Writer).  It accepts    *)
(* every write whole, except the write numbered sink.failAt, which it       *)
(* rejects without accepting a byte (failAt = 0: it never fails).           *)

SinkWrite(s, o, data) ==
    LET n == s.n + 1
        fails == (n = s.failAt)
    IN  [sink |-> [s EXCEPT !.n = n],
         out |-> IF fails THEN o ELSE o \o data,
         ok |-> ~fails]

---------------------------------------------------------------------------
(* JSONWriter *)

OpenDelim(tlt) == IF tlt = "object" THEN "{" ELSE "["

CloseDelim(tlt) == IF tlt = "object" THEN "}" ELSE "]"

JSONWriter(tlt) ==
    [rowsWritten |-> 0, tlt |-> tlt, keysWritten |-> {}]

\* the bytes of an encoded value, or the encoder's error
encoded(wr, prefix, m) ==
    [w |-> wr, ok |-> m.ok, data |-> prefix \o m.data,
     err |-> IF m.ok THEN "" ELSE "json: unsupported value"]

\* valBytes without the test for a key already written: the variant that
\* C3 must tell apart from valBytes
valBytesRepeatedKeys(wr, ent) ==
    IF wr.tlt = "array" THEN encoded(wr, <<>>, Marshal(ent.value))
    ELSE IF ent.key = <<>>
      THEN [w |-> wr, ok |-> FALSE, data |-> <<>>, err |-> "entry key cannot be empty"]
    ELSE encoded([wr EXCEPT !.keysWritten = @ \cup {ent.key}],
                 Quote(ent.key) \o <<":">>, Marshal(ent.value))

\* valBytes: [w |-> writer after the call, ok, err, data]
valBytes(wr, ent) ==
    IF wr.tlt = "array" THEN encoded(wr, <<>>, Marshal(ent.value))
    ELSE IF ent.key = <<>>
      THEN [w |-> wr, ok |-> FALSE, data |-> <<>>, err |-> "entry key cannot be empty"]
    ELSE IF ent.key \in wr.keysWritten
      THEN [w |-> wr, ok |-> FALSE, data |-> <<>>, err |-> "key already written"]
    ELSE encoded([wr EXCEPT !.keysWritten = @ \cup {ent.key}],
                 Quote(ent.key) \o <<":">>, Marshal(ent.value))

\* the deferred rowsWritten++ of WriteEntry
bump(wr) == [wr EXCEPT !.rowsWritten = @ + 1]

\* the opening delimiter, written by the first WriteEntry: [sink, out, ok]
writeOpening(wr, s, o) ==
    IF wr.rowsWritten = 0 THEN SinkWrite(s, o, <<OpenDelim(wr.tlt)>>)
    ELSE [sink |-> s, out |-> o, ok |-> TRUE]

\* what WriteEntry returns after its last Write
written(wr, wrote) ==
    [w |-> bump(wr), sink |-> wrote.sink, out |-> wrote.out,
     err |-> IF wrote.ok THEN "" ELSE "write error"]

\* WriteEntry writing a comma before the first entry too: the variant that
\* C6 must tell apart from WriteEntryCall
WriteEntryCallLeadingComma(wr, s, o, ent) ==
    Bind(writeOpening(wr, s, o), LAMBDA opened :
        IF ~opened.ok
          THEN [w |-> bump(wr), sink |-> opened.sink, out |-> opened.out,
                err |-> "error writing initial"]
        ELSE Bind(valBytes(wr, ent), LAMBDA vb :
            IF ~vb.ok
              THEN [w |-> bump(vb.w), sink |-> opened.sink, out |-> opened.out,
                    err |-> vb.err]
            ELSE written(vb.w, SinkWrite(opened.sink, opened.out, <<",">> \o vb.data))))

\* WriteEntry: [w, sink, out, err]; err = "" when the call returns nil.
\* The deferred rowsWritten++ runs on every return path.
WriteEntryCall(wr, s, o, ent) ==
    Bind(writeOpening(wr, s, o), LAMBDA opened :
        IF ~opened.ok
          THEN [w |-> bump(wr), sink |-> opened.sink, out |-> opened.out,
                err |-> "error writing initial"]
        ELSE Bind(valBytes(wr, ent), LAMBDA vb :
            IF ~vb.ok
              THEN [w |-> bump(vb.w), sink |-> opened.sink, out |-> opened.out,
                    err |-> vb.err]
            ELSE written(vb.w, SinkWrite(opened.sink, opened.out,
                                         (IF wr.rowsWritten = 0 THEN <<>> ELSE <<",">>)
                                         \o vb.data))))

\* Close writing the closing delimiter alone whatever was written before:
\* the variant that C5 must tell apart from CloseCall
CloseCallCloserOnly(wr, s, o) ==
    Bind(SinkWrite(s, o, <<CloseDelim(wr.tlt)>>), LAMBDA wrote :
        [sink |-> wrote.sink, out |-> wrote.out,
         err |-> IF wrote.ok THEN "" ELSE "error closing writer"])

\* Close: [sink, out, err]
CloseCall(wr, s, o) ==
    Bind(SinkWrite(s, o, IF wr.rowsWritten = 0
                           THEN <<OpenDelim(wr.tlt), CloseDelim(wr.tlt)>>
                           ELSE <<CloseDelim(wr.tlt)>>), LAMBDA wrote :
        [sink |-> wrote.sink, out |-> wrote.out,
         err |-> IF wrote.ok THEN ""
                 ELSE IF wr.rowsWritten = 0 THEN "error writing empty closure"
                 ELSE "error closing writer"])

---------------------------------------------------------------------------
(* bufio.Reader over the input stream.  r.pos is the offset of the next     *)
(* source byte not yet read, r.buf the bytes buffered and not yet consumed  *)
(* (buf[b.r:b.w]); c.size is len(b.buf).  The source returns at most        *)
(* c.chunk bytes per Read (c.chunk = 0: as many as fit) and io.EOF at its   *)
(* end.                                                                     *)

blockSize == 4096

\* bufio.NewReaderSize raises a smaller size to this minimum
minReadBufferSize == 16

Buffered(r) == Len(r.buf)

\* the offset in the source of the first byte not yet consumed
Offset(r) == r.pos - Len(r.buf)

\* bufio.Reader.fill: one Read of the source into the free space
fill(c, r) ==
    LET space == c.size - Len(r.buf)
        left == Len(c.in) - r.pos
        want == Min(space, left)
        n == IF c.chunk > 0 THEN Min(want, c.chunk) ELSE want
    IN  [r EXCEPT !.buf = @ \o SubSeq(c.in, r.pos + 1, r.pos + n), !.pos = @ + n]

\* bufio.Reader.Peek(n), for its effect on the buffer: fill until n bytes are
\* buffered, the buffer is full or the source is at its end
RECURSIVE Peek(_, _, _)
Peek(c, r, n) ==
    IF Len(r.buf) < n /\ Len(r.buf) < c.size /\ r.pos < Len(c.in)
      THEN Peek(c, fill(c, r), n)
      ELSE r

\* bufio.Reader.Discard(n): n <= 0 discards nothing; more than is buffered
\* goes on reading the source
RECURSIVE Discard(_, _, _)
Discard(c, r, n) ==
    IF n <= 0 THEN r
    ELSE IF Len(r.buf) = 0
      THEN IF r.pos >= Len(c.in) THEN r ELSE Discard(c, fill(c, r), n)
    ELSE IF Len(r.buf) >= n THEN [r EXCEPT !.buf = Drop(@, n)]
    ELSE Discard(c, [r EXCEPT !.buf = <<>>], n - Len(r.buf))

---------------------------------------------------------------------------
(* JSONReader: buffer discipline *)

JSONReader(size) ==
    [pos |-> 0, buf |-> <<>>, prevSize |-> 0,
     initialized |-> FALSE, entriesRead |-> 0,
     valErr |-> FALSE]    \* history: a value decode failed in the current call

\* white space without the carriage return
isWhitespaceButCR(ch) == ch \in {" ", "\n", "\t"}

isWhitespace(ch) == ch \in {" ", "\n", "\r", "\t"}

\* extendBuffer: [r, buff, more]
extendBuffer(c, r, orig) ==
    Bind(Peek(c, Discard(c, [r EXCEPT !.prevSize = @ + Buffered(r)], Buffered(r)),
              blockSize),
         LAMBDA r3 :
            IF Buffered(r3) > 0
              THEN [r |-> r3, buff |-> orig \o r3.buf, more |-> TRUE]
              ELSE [r |-> r3, buff |-> orig, more |-> FALSE])

\* `if i >= len(buff) { buff, more = r.extendBuffer(buff) }`: [r, buff, more]
extendIfAt(c, r, buff, i) ==
    IF i >= Len(buff) THEN extendBuffer(c, r, buff)
    ELSE [r |-> r, buff |-> buff, more |-> TRUE]

\* the white-space loop of currentBuffer: [r, buff, skip]
RECURSIVE skipWhitespace(_, _, _, _)
skipWhitespace(c, r, buff, skip) ==
    Bind(extendIfAt(c, r, buff, skip), LAMBDA e :
        IF ~e.more THEN [r |-> e.r, buff |-> e.buff, skip |-> skip]
        ELSE IF isWhitespace(e.buff[skip + 1])
          THEN skipWhitespace(c, e.r, e.buff, skip + 1)
        ELSE [r |-> e.r, buff |-> e.buff, skip |-> skip])

\* currentBuffer: [r, buff]
currentBuffer(c, r) ==
    Bind(skipWhitespace(c, [r EXCEPT !.prevSize = 0], r.buf, 0), LAMBDA s :
        IF s.skip > 0
          THEN [r |-> [Discard(c, s.r, s.skip - s.r.prevSize) EXCEPT !.prevSize = 0],
                buff |-> Drop(s.buff, s.skip)]
          ELSE [r |-> s.r, buff |-> s.buff])

\* readTokenChar taking either opening delimiter for the other: the variant
\* that C8 must tell apart from readTokenChar
readTokenCharEitherOpening(c, r, ch) ==
    Bind(currentBuffer(c, r), LAMBDA cb :
        IF Len(cb.buff) > 0 /\ (cb.buff[1] = ch \/ {cb.buff[1], ch} = {"[", "{"})
          THEN [r |-> Discard(c, cb.r, 1), ok |-> TRUE]
          ELSE [r |-> cb.r, ok |-> FALSE])

\* readTokenChar: [r, ok]
readTokenChar(c, r, ch) ==
    Bind(currentBuffer(c, r), LAMBDA cb :
        IF Len(cb.buff) > 0 /\ cb.buff[1] = ch
          THEN [r |-> Discard(c, cb.r, 1), ok |-> TRUE]
          ELSE [r |-> cb.r, ok |-> FALSE])

\* readLiteralToken: [r, ok]
readLiteralToken(c, r, tok) ==
    Bind(currentBuffer(c, r), LAMBDA cb :
    Bind(IF Len(tok) > Len(cb.buff) THEN extendBuffer(c, cb.r, cb.buff)
         ELSE [r |-> cb.r, buff |-> cb.buff, more |-> TRUE], LAMBDA e :
        IF ~e.more THEN [r |-> e.r, ok |-> FALSE]
        ELSE IF IsPrefix(tok, e.buff)
          THEN [r |-> Discard(c, e.r, Len(tok) - e.r.prevSize), ok |-> TRUE]
        ELSE [r |-> e.r, ok |-> FALSE]))

\* peekNextChar: [r, b]; b = "" stands for the byte 0
peekNextChar(c, r) ==
    Bind(currentBuffer(c, r), LAMBDA cb :
        [r |-> cb.r, b |-> IF Len(cb.buff) > 0 THEN cb.buff[1] ELSE ""])

\* extractFromBuffer: [r, text]
extractFromBuffer(c, r, buffer, i) ==
    [r |-> [Discard(c, r, i - r.prevSize) EXCEPT !.prevSize = 0],
     text |-> Prefix(buffer, i)]

---------------------------------------------------------------------------
(* strconv, as the reader uses it *)

Digits == {"0", "1", "2", "3", "4", "5", "6", "7", "8", "9"}

HexDigits == Digits \cup {"a", "b", "c", "d", "e", "f"}

DigitVal(ch) == CHOOSE d \in 0..9 : Digit(d) = ch

\* the number of leading decimal digits of s
RECURSIVE DigitRun(_)
DigitRun(s) == IF s # <<>> /\ s[1] \in Digits THEN 1 + DigitRun(Tail(s)) ELSE 0

\* the value of a run of decimal digits
RECURSIVE NatVal(_)
NatVal(ds) ==
    IF ds = <<>> THEN 0 ELSE 10 * NatVal(Prefix(ds, Len(ds) - 1)) + DigitVal(ds[Len(ds)])

\* m * 10^e with the trailing zeros of m moved into e
RECURSIVE Norm(_, _)
Norm(m, e) ==
    IF m = 0 THEN <<0, 0>>
    ELSE IF m % 10 = 0 THEN Norm(m \div 10, e + 1)
    ELSE <<m, e>>

\* strconv.Atoi: [ok, v]
Atoi(s) ==
    LET signed == s # <<>> /\ s[1] \in {"-", "+"}
        ds == IF signed THEN Tail(s) ELSE s
    IN  IF ds # <<>> /\ DigitRun(ds) = Len(ds)
          THEN [ok |-> TRUE, v |-> IF signed /\ s[1] = "-" THEN -NatVal(ds) ELSE NatVal(ds)]
          ELSE [ok |-> FALSE, v |-> 0]

\* an optional sign: [neg, rest]
Sign(s) ==
    IF s # <<>> /\ s[1] \in {"-", "+"} THEN [neg |-> s[1] = "-", rest |-> Tail(s)]
    ELSE [neg |-> FALSE, rest |-> s]

\* a leading run of decimal digits: [n, digits, rest]
DigitsOf(s) ==
    [n |-> DigitRun(s), digits |-> Prefix(s, DigitRun(s)), rest |-> Drop(s, DigitRun(s))]

\* an optional '.' with the digits after it: [n, digits, rest]
Fraction(s) ==
    IF s # <<>> /\ s[1] = "." THEN DigitsOf(Tail(s))
    ELSE [n |-> 0, digits |-> <<>>, rest |-> s]

\* an optional exponent, 'e' or 'E', a sign and digits: [has, n, v, rest]
Exponent(s) ==
    IF s # <<>> /\ s[1] \in {"e", "E"}
      THEN Bind(Sign(Tail(s)), LAMBDA sg :
           Bind(DigitsOf(sg.rest), LAMBDA ds :
              [has |-> TRUE, n |-> ds.n, rest |-> ds.rest,
               v |-> IF sg.neg THEN -NatVal(ds.digits) ELSE NatVal(ds.digits)]))
      ELSE [has |-> FALSE, n |-> 0, rest |-> s, v |-> 0]

\* strconv.ParseFloat(s, 64) on decimal text: [ok, v], v = <<m, e>> for m * 10^e
ParseFloat(s) ==
    Bind(Sign(s), LAMBDA sg :
    Bind(DigitsOf(sg.rest), LAMBDA ip :
    Bind(Fraction(ip.rest), LAMBDA fp :
    Bind(Exponent(fp.rest), LAMBDA ex :
    Bind(NatVal(ip.digits \o fp.digits), LAMBDA mant :
        IF ip.n + fp.n > 0 /\ (ex.has => ex.n > 0) /\ ex.rest = <<>>
          THEN [ok |-> TRUE, v |-> Norm(IF sg.neg THEN -mant ELSE mant, ex.v - fp.n)]
          ELSE [ok |-> FALSE, v |-> <<0, 0>>])))))

\* the rune written \uXXXX; the model knows U+003C, any other is one rune
\* outside its alphabet
UnicodeRune(hex) == IF hex = Chars("003c") THEN "<" ELSE "U+"

\* the escape loop of strconv.Unquote over the text between the quotes: [ok, v]
RECURSIVE UnquoteChars(_)
UnquoteChars(s) ==
    IF s = <<>> THEN [ok |-> TRUE, v |-> <<>>]
    ELSE IF s[1] = "\"" THEN [ok |-> FALSE, v |-> <<>>]
    ELSE IF s[1] # "\\"
      THEN LET t == UnquoteChars(Tail(s))
           IN  [ok |-> t.ok, v |-> IF t.ok THEN <<s[1]>> \o t.v ELSE <<>>]
    ELSE IF Len(s) < 2 THEN [ok |-> FALSE, v |-> <<>>]
    ELSE IF s[2] \in {"\"", "\\", "n", "r", "t"}
      THEN LET ch == CASE s[2] = "n" -> "\n"
                       [] s[2] = "r" -> "\r"
                       [] s[2] = "t" -> "\t"
                       [] OTHER -> s[2]
               t == UnquoteChars(Drop(s, 2))
           IN  [ok |-> t.ok, v |-> IF t.ok THEN <<ch>> \o t.v ELSE <<>>]
    ELSE IF s[2] = "u" /\ Len(s) >= 6 /\ \A i \in 3..6 : s[i] \in HexDigits
      THEN LET t == UnquoteChars(Drop(s, 6))
           IN  [ok |-> t.ok,
                v |-> IF t.ok THEN <<UnicodeRune(SubSeq(s, 3, 6))>> \o t.v ELSE <<>>]
    ELSE [ok |-> FALSE, v |-> <<>>]

\* strconv.Unquote of a double-quoted token: [ok, v]
Unquote(tok) ==
    LET inner == SubSeq(tok, 2, Len(tok) - 1)
    IN  IF \E i \in 1..Len(inner) : inner[i] = "\n"
          THEN [ok |-> FALSE, v |-> <<>>]
          ELSE UnquoteChars(inner)

---------------------------------------------------------------------------
(* JSONReader: tokens and values.  A decoder returns [r, v, st, msg] with   *)
(* st = "ok", "err" (an error value is returned) or "panic" (the goroutine  *)
(* panics: index out of range).                                             *)

Done(r, v) == [r |-> r, v |-> v, st |-> "ok", msg |-> ""]

Fail(r, v, msg) == [r |-> [r EXCEPT !.valErr = TRUE], v |-> v, st |-> "err", msg |-> msg]

Panic(r) == [r |-> r, v |-> VNull, st |-> "panic", msg |-> "index out of range"]

\* the scanning loop of readString; i counts the bytes of buff scanned
RECURSIVE scanString(_, _, _, _)
scanString(c, r, buff, i) ==
    Bind(extendIfAt(c, r, buff, i), LAMBDA e :
        IF ~e.more
          THEN Fail(e.r, [k |-> "str", v |-> <<>>], "Expected: closing '\"' for string")
        ELSE IF i >= Len(e.buff) THEN Panic(e.r)
        ELSE IF e.buff[i + 1] = "\\" THEN scanString(c, e.r, e.buff, i + 2)
        ELSE IF e.buff[i + 1] = "\""
          THEN Bind(extractFromBuffer(c, e.r, e.buff, i + 1), LAMBDA x :
               Bind(Unquote(x.text), LAMBDA u :
                  IF u.ok THEN Done(x.r, [k |-> "str", v |-> u.v])
                  ELSE Fail(x.r, [k |-> "str", v |-> <<>>], "invalid syntax")))
        ELSE scanString(c, e.r, e.buff, i + 1))

readString(c, r) ==
    Bind(currentBuffer(c, r), LAMBDA cb :
        IF Len(cb.buff) > 0 /\ cb.buff[1] = "\""
          THEN scanString(c, cb.r, cb.buff, 1)
          ELSE Fail(cb.r, [k |-> "str", v |-> <<>>], "Expected: string"))

\* the scanning loop of readNumber: [r, buff, i, isFloat]
RECURSIVE scanNumber(_, _, _, _, _)
scanNumber(c, r, buff, i, isFloat) ==
    Bind(extendIfAt(c, r, buff, i), LAMBDA e :
        IF ~e.more THEN [r |-> e.r, buff |-> e.buff, i |-> i, isFloat |-> isFloat]
        ELSE IF e.buff[i + 1] \in Digits THEN scanNumber(c, e.r, e.buff, i + 1, isFloat)
        ELSE IF e.buff[i + 1] \in {".", "e", "E", "+"} THEN scanNumber(c, e.r, e.buff, i + 1, TRUE)
        ELSE IF e.buff[i + 1] = "-" THEN scanNumber(c, e.r, e.buff, i + 1, isFloat)
        ELSE [r |-> e.r, buff |-> e.buff, i |-> i, isFloat |-> isFloat])

\* the conversion at the end of readNumber
\* a conversion that takes every number token for an integer
convertNumberAsInt(x, isFloat) ==
    Bind(Atoi(x.text), LAMBDA n :
        IF n.ok THEN Done(x.r, VInt(n.v))
        ELSE Fail(x.r, VInt(0), "strconv.Atoi: invalid syntax"))

convertNumber(x, isFloat) ==
    IF isFloat
      THEN Bind(ParseFloat(x.text), LAMBDA f :
              IF f.ok THEN Done(x.r, [k |-> "float", v |-> f.v])
              ELSE Fail(x.r, [k |-> "float", v |-> <<0, 0>>],
                        "strconv.ParseFloat: invalid syntax"))
      ELSE Bind(Atoi(x.text), LAMBDA n :
              IF n.ok THEN Done(x.r, VInt(n.v))
              ELSE Fail(x.r, VInt(0), "strconv.Atoi: invalid syntax"))

readNumber(c, r) ==
    Bind(currentBuffer(c, r), LAMBDA cb :
    Bind(scanNumber(c, cb.r, cb.buff, 0, FALSE), LAMBDA s :
        IF s.i = 0 THEN Fail(s.r, VInt(0), "Expected: number")
        ELSE convertNumber(extractFromBuffer(c, s.r, s.buff, s.i), s.isFloat)))

\* obj[key] = val on a map kept as pairs sorted by key
RECURSIVE MapPut(_, _, _)
MapPut(ps, key, val) ==
    IF ps = <<>> THEN <<<<key, val>>>>
    ELSE IF ps[1][1] = key THEN <<<<key, val>>>> \o Tail(ps)
    ELSE IF StrLess(key, ps[1][1]) THEN <<<<key, val>>>> \o ps
    ELSE <<ps[1]>> \o MapPut(Tail(ps), key, val)

RECURSIVE readValue(_, _), readArray(_, _), readArrayRest(_, _, _)
RECURSIVE readObject(_, _), readObjectRest(_, _, _), readKeyValuePair(_, _)

\* readLiteralToken as readValue uses it for null, true and false
readLiteral(c, r, tok, val) ==
    Bind(readLiteralToken(c, r, Chars(tok)), LAMBDA t :
        IF t.ok THEN Done(t.r, val) ELSE Fail(t.r, VNull, "Expected: " \o tok))

\* a readValue that takes a byte that starts no value for an error
readValueStrict(c, r) ==
    Bind(peekNextChar(c, r), LAMBDA p :
        CASE p.b = "n" -> readLiteral(c, p.r, "null", VNull)
          [] p.b = "t" -> readLiteral(c, p.r, "true", VBool(TRUE))
          [] p.b = "f" -> readLiteral(c, p.r, "false", VBool(FALSE))
          [] p.b = "\"" -> readString(c, p.r)
          [] p.b \in Digits \cup {"-"} -> readNumber(c, p.r)
          [] p.b = "{" -> readObject(c, p.r)
          [] p.b = "[" -> readArray(c, p.r)
          [] OTHER -> Fail(p.r, VNull, "Expected: value"))

readValue(c, r) ==
    Bind(peekNextChar(c, r), LAMBDA p :
        CASE p.b = "n" -> readLiteral(c, p.r, "null", VNull)
          [] p.b = "t" -> readLiteral(c, p.r, "true", VBool(TRUE))
          [] p.b = "f" -> readLiteral(c, p.r, "false", VBool(FALSE))
          [] p.b = "\"" -> readString(c, p.r)
          [] p.b \in Digits \cup {"-"} -> readNumber(c, p.r)
          [] p.b = "{" -> readObject(c, p.r)
          [] p.b = "[" -> readArray(c, p.r)
          [] OTHER -> Done(p.r, VNull))

\* a pair that was not read: [r, key, v, st, msg]
noPair(x) == [r |-> x.r, key |-> <<>>, v |-> VNull, st |-> x.st, msg |-> x.msg]

\* readKeyValuePair: [r, key, v, st, msg]
readKeyValuePair(c, r) ==
    Bind(readString(c, r), LAMBDA ks :
        IF ks.st # "ok" THEN noPair(ks)
        ELSE Bind(readTokenChar(c, ks.r, ":"), LAMBDA colon :
            IF ~colon.ok
              THEN noPair(Fail(colon.r, VNull, "Expected: ':' to separate key and value"))
            ELSE Bind(readValue(c, colon.r), LAMBDA val :
                IF val.st # "ok" THEN noPair(val)
                ELSE [r |-> val.r, key |-> ks.v.v, v |-> val.v,
                      st |-> "ok", msg |-> ""])))

\* the loop of readObject after the first pair
readObjectRest(c, r, obj) ==
    Bind(readTokenChar(c, r, "}"), LAMBDA close :
        IF close.ok THEN Done(close.r, VObj(obj))
        ELSE Bind(readTokenChar(c, close.r, ","), LAMBDA comma :
            IF ~comma.ok THEN Fail(comma.r, VNull, "Expected: ',' to separate elements")
            ELSE Bind(readKeyValuePair(c, comma.r), LAMBDA kv :
                IF kv.st = "panic" THEN Panic(kv.r)
                ELSE IF kv.st = "err" THEN Fail(kv.r, VObj(obj), kv.msg)
                ELSE readObjectRest(c, kv.r, MapPut(obj, kv.key, kv.v)))))

readObject(c, r) ==
    Bind(readTokenChar(c, r, "{"), LAMBDA open :
        IF ~open.ok THEN Fail(open.r, VNull, "Expected: opening '{' for object")
        ELSE Bind(readTokenChar(c, open.r, "}"), LAMBDA close :
            IF close.ok THEN Done(close.r, VObj(<<>>))
            ELSE Bind(readKeyValuePair(c, close.r), LAMBDA kv :
                IF kv.st = "panic" THEN Panic(kv.r)
                ELSE IF kv.st = "err" THEN Fail(kv.r, VNull, kv.msg)
                ELSE readObjectRest(c, kv.r, <<<<kv.key, kv.v>>>>))))

\* the loop of readArray after the first element
readArrayRest(c, r, array) ==
    Bind(readTokenChar(c, r, "]"), LAMBDA close :
        IF close.ok THEN Done(close.r, VArr(array))
        ELSE Bind(readTokenChar(c, close.r, ","), LAMBDA comma :
            IF ~comma.ok
              THEN Fail(currentBuffer(c, comma.r).r, VNull,
                        "Expected: ',' to separate elements")
            ELSE Bind(readValue(c, comma.r), LAMBDA val :
                IF val.st = "panic" THEN Panic(val.r)
                ELSE IF val.st = "err" THEN Fail(val.r, VArr(array), val.msg)
                ELSE readArrayRest(c, val.r, Append(array, val.v)))))

\* an error decoding the first element is not returned: the array read so
\* far (empty) is, with a nil error
readArray(c, r) ==
    Bind(readTokenChar(c, r, "["), LAMBDA open :
        IF ~open.ok THEN Fail(open.r, VNull, "Expected: opening '[' for array")
        ELSE Bind(readTokenChar(c, open.r, "]"), LAMBDA close :
            IF close.ok THEN Done(close.r, VArr(<<>>))
            ELSE Bind(readValue(c, close.r), LAMBDA val :
                IF val.st = "panic" THEN Panic(val.r)
                ELSE IF val.st = "err" THEN Done(val.r, VArr(<<>>))
                ELSE readArrayRest(c, val.r, <<val.v>>))))

---------------------------------------------------------------------------
(* JSONReader.ReadEntry: [r, res], res = [kind, ent, msg] with kind         *)
(* "entry" (nil error), "eof" (io.EOF), "err" (another error) or "panic".   *)

Result(kind, ent, msg) == [kind |-> kind, ent |-> ent, msg |-> msg]

\* the entry ReadEntry builds from a decoded value
readEntryValue(c, r) ==
    IF c.tlt = "object"
      THEN Bind(readKeyValuePair(c, r), LAMBDA kv :
              [r |-> kv.r, st |-> kv.st, msg |-> kv.msg,
               ent |-> [key |-> kv.key, index |-> 0, value |-> kv.v]])
      ELSE Bind(readValue(c, r), LAMBDA val :
              [r |-> val.r, st |-> val.st, msg |-> val.msg,
               ent |-> [key |-> <<>>, index |-> r.entriesRead, value |-> val.v]])

\* entryResult counting the call whatever it returns: the variant that C12
\* must tell apart from entryResult
entryResultCountsErrors(x) ==
    IF x.st = "panic" THEN [r |-> x.r, res |-> Result("panic", x.ent, x.msg)]
    ELSE IF x.st = "err"
      THEN [r |-> [x.r EXCEPT !.entriesRead = @ + 1], res |-> Result("err", x.ent, x.msg)]
    ELSE [r |-> [x.r EXCEPT !.entriesRead = @ + 1], res |-> Result("entry", x.ent, "")]

\* what ReadEntry returns once the value has been decoded
entryResult(x) ==
    IF x.st = "panic" THEN [r |-> x.r, res |-> Result("panic", x.ent, x.msg)]
    ELSE IF x.st = "err" THEN [r |-> x.r, res |-> Result("err", x.ent, x.msg)]
    ELSE [r |-> [x.r EXCEPT !.entriesRead = @ + 1], res |-> Result("entry", x.ent, "")]

\* the error for a missing opening delimiter
openingError(tlt) ==
    IF tlt = "object" THEN "Expected: opening object '{'"
    ELSE "Expected: opening array '['"

\* ReadEntry asking for the comma once an entry has been counted rather than
\* once the container is open: the variant that C9 must tell apart from
\* ReadEntryCall
ReadEntryCallCommaByCount(c, r) ==
    Bind(Peek(c, [r EXCEPT !.valErr = FALSE], blockSize), LAMBDA r0 :
    Bind(IF ~r0.initialized THEN readTokenChar(c, r0, OpenDelim(c.tlt))
         ELSE [r |-> r0, ok |-> TRUE], LAMBDA open :
        IF ~open.ok
          THEN [r |-> open.r, res |-> Result("err", ZeroEntry, openingError(c.tlt))]
        ELSE Bind(readTokenChar(c, open.r, CloseDelim(c.tlt)), LAMBDA close :
            IF close.ok THEN [r |-> close.r, res |-> Result("eof", ZeroEntry, "EOF")]
            ELSE Bind(IF close.r.entriesRead > 0 THEN readTokenChar(c, close.r, ",")
                      ELSE [r |-> close.r, ok |-> TRUE], LAMBDA comma :
                IF ~comma.ok
                  THEN [r |-> comma.r,
                        res |-> Result("err", ZeroEntry, "Expected: separator ','")]
                ELSE entryResult(
                        readEntryValue(c, [comma.r EXCEPT !.initialized = TRUE]))))))

ReadEntryCall(c, r) ==
    Bind(Peek(c, [r EXCEPT !.valErr = FALSE], blockSize), LAMBDA r0 :
    Bind(IF ~r0.initialized THEN readTokenChar(c, r0, OpenDelim(c.tlt))
         ELSE [r |-> r0, ok |-> TRUE], LAMBDA open :
        IF ~open.ok
          THEN [r |-> open.r, res |-> Result("err", ZeroEntry, openingError(c.tlt))]
        ELSE Bind(readTokenChar(c, open.r, CloseDelim(c.tlt)), LAMBDA close :
            IF close.ok THEN [r |-> close.r, res |-> Result("eof", ZeroEntry, "EOF")]
            ELSE Bind(IF close.r.initialized THEN readTokenChar(c, close.r, ",")
                      ELSE [r |-> close.r, ok |-> TRUE], LAMBDA comma :
                IF ~comma.ok
                  THEN [r |-> comma.r,
                        res |-> Result("err", ZeroEntry, "Expected: separator ','")]
                ELSE entryResult(
                        readEntryValue(c, [comma.r EXCEPT !.initialized = TRUE]))))))

---------------------------------------------------------------------------
(* The structure a tabular codec is built on (dataset.Structure): the      *)
(* format name, the schema (a map[string]interface{}, here a value of kind *)
(* "obj" or VNull for a nil map) and the format configuration map.         *)

\* m[key] of a map[string]interface{}: the value, VNull when m is not a map
\* or has no such key
Field(m, key) ==
    IF m.k = "obj" /\ \E i \in 1..Len(m.v) : m.v[i][1] = Chars(key)
      THEN m.v[CHOOSE i \in 1..Len(m.v) : m.v[i][1] = Chars(key)][2]
      ELSE VNull

\* the configuration map: isNil for a nil map, else the value under each of
\* the four keys NewCSVOptions reads (VNull: key absent)
NilConfig ==
    [isNil |-> TRUE, headerRow |-> VNull, lazyQuotes |-> VNull,
     separator |-> VNull, variadicFields |-> VNull]

\* the zero dataset.CSVOptions; Separator "" is rune(0)
ZeroCSVOptions ==
    [HeaderRow |-> FALSE, LazyQuotes |-> FALSE, Separator |-> "", VariadicFields |-> FALSE]

\* a boolean option: absent or a bool
boolOption(val) == val.k \in {"null", "bool"}

\* dataset.NewCSVOptions: [ok, o]; ok FALSE is the (nil, error) return
NewCSVOptions(opts) ==
    IF opts.isNil THEN [ok |-> TRUE, o |-> ZeroCSVOptions]
    ELSE IF ~boolOption(opts.headerRow) THEN [ok |-> FALSE, o |-> ZeroCSVOptions]
    ELSE IF ~boolOption(opts.lazyQuotes) THEN [ok |-> FALSE, o |-> ZeroCSVOptions]
    ELSE IF opts.separator.k # "null"
            /\ (opts.separator.k # "str" \/ Len(opts.separator.v) # 1)
      THEN [ok |-> FALSE, o |-> ZeroCSVOptions]
    ELSE IF ~boolOption(opts.variadicFields) THEN [ok |-> FALSE, o |-> ZeroCSVOptions]
    ELSE [ok |-> TRUE,
          o |-> [HeaderRow |-> opts.headerRow.k = "bool" /\ opts.headerRow.v,
                 LazyQuotes |-> opts.lazyQuotes.k = "bool" /\ opts.lazyQuotes.v,
                 Separator |-> IF opts.separator.k = "str" THEN opts.separator.v[1] ELSE "",
                 VariadicFields |-> opts.variadicFields.k = "bool" /\ opts.variadicFields.v]]

\* HasHeaderRow(st)
HasHeaderRow(s) ==
    /\ s.Format = "csv"
    /\ ~s.FormatConfig.isNil
    /\ NewCSVOptions(s.FormatConfig).ok
    /\ NewCSVOptions(s.FormatConfig).o.HeaderRow

\* the title terribleHackToGetHeaderRowAndTypes records for one column
columnTitle(f) ==
    IF f.k = "obj" /\ Field(f, "title").k = "str" THEN Field(f, "title").v ELSE <<>>

\* the type it records for one column
columnType(f) ==
    IF f.k # "obj" THEN <<>>
    ELSE IF Field(f, "type").k = "str" THEN Field(f, "type").v
    ELSE IF Field(f, "type").k = "arr" /\ Len(Field(f, "type").v) > 0
      THEN IF Field(f, "type").v[1].k = "str" THEN Field(f, "type").v[1].v
           ELSE Chars("string")
    ELSE Chars("string")

\* terribleHackToGetHeaderRowAndTypes(st): [ok, titles, types]; ok FALSE is
\* the (nil, nil, error) return
terribleHackToGetHeaderRowAndTypes(s) ==
    IF Field(Field(s.Schema, "items"), "items").k = "arr"
      THEN Bind(Field(Field(s.Schema, "items"), "items").v, LAMBDA itemArr :
             [ok |-> TRUE,
              titles |-> [i \in 1..Len(itemArr) |-> columnTitle(itemArr[i])],
              types |-> [i \in 1..Len(itemArr) |-> columnType(itemArr[i])]])
      ELSE [ok |-> FALSE, titles |-> <<>>, types |-> <<>>]

---------------------------------------------------------------------------
(* bufio.Writer, as encoding/csv uses it: buf holds the bytes not yet handed *)
(* to the output stream, err is the sticky error of a failed flush.          *)

defaultBufSize == 4096

NewBufioWriter == [buf |-> <<>>, err |-> FALSE]

\* (*bufio.Writer).Flush: [b, sink, out, ok]
bufioFlush(b, s, o) ==
    IF b.err THEN [b |-> b, sink |-> s, out |-> o, ok |-> FALSE]
    ELSE IF b.buf = <<>> THEN [b |-> b, sink |-> s, out |-> o, ok |-> TRUE]
    ELSE Bind(SinkWrite(s, o, b.buf), LAMBDA x :
           [b |-> IF x.ok THEN [b EXCEPT !.buf = <<>>] ELSE [b EXCEPT !.err = TRUE],
            sink |-> x.sink, out |-> x.out, ok |-> x.ok])

\* (*bufio.Writer).WriteString: [b, sink, out, ok]
RECURSIVE bufioWrite(_, _, _, _)
bufioWrite(b, s, o, data) ==
    IF b.err THEN [b |-> b, sink |-> s, out |-> o, ok |-> FALSE]
    ELSE IF Len(data) > defaultBufSize - Len(b.buf)
      THEN Bind(bufioFlush([b EXCEPT !.buf = b.buf \o Prefix(data, defaultBufSize - Len(b.buf))],
                           s, o), LAMBDA x :
             IF x.ok THEN bufioWrite(x.b, x.sink, x.out, Drop(data, defaultBufSize - Len(b.buf)))
             ELSE x)
    ELSE [b |-> [b EXCEPT !.buf = b.buf \o data], sink |-> s, out |-> o, ok |-> TRUE]

---------------------------------------------------------------------------
(* encoding/csv.Writer *)

Contains(s, chs) == \E i \in 1..Len(s) : s[i] \in chs

\* (*csv.Writer).fieldNeedsQuotes
fieldNeedsQuotes(comma, field) ==
    /\ field # <<>>
    /\ \/ field = Chars("\\.")
       \/ Contains(field, {comma, "\"", "\r", "\n"})
       \/ field[1] \in {" ", "\t"}

\* the bytes between the quotes of a quoted field
RECURSIVE quotedBody(_)
quotedBody(field) ==
    IF field = <<>> THEN <<>>
    ELSE (IF field[1] = "\"" THEN <<"\"", "\"">> ELSE <<field[1]>>) \o quotedBody(Tail(field))

csvField(comma, field) ==
    IF fieldNeedsQuotes(comma, field) THEN <<"\"">> \o quotedBody(field) \o <<"\"">>
    ELSE field

\* the bytes (*csv.Writer).Write produces for one record
RECURSIVE csvFields(_, _)
csvFields(comma, record) ==
    IF record = <<>> THEN <<>>
    ELSE IF Len(record) = 1 THEN csvField(comma, record[1])
    ELSE csvField(comma, record[1]) \o <<comma>> \o csvFields(comma, Tail(record))

csvLine(comma, record) == csvFields(comma, record) \o <<"\n">>

---------------------------------------------------------------------------
(* CSVWriter *)

\* strconv.FormatFloat(f, 'f', -1, 64), f = m * 10^e
FormatFloatF(m, e) ==
    Bind(NatStr(IF m < 0 THEN -m ELSE m), LAMBDA ds :
        (IF m < 0 THEN <<"-">> ELSE <<>>) \o
        (IF e >= 0 THEN ds \o Repeat("0", e)
         ELSE IF Len(ds) > -e THEN Prefix(ds, Len(ds) + e) \o <<".">> \o Drop(ds, Len(ds) + e)
         ELSE <<"0", ".">> \o Repeat("0", -e - Len(ds)) \o ds))

\* one field of encode
encodeField(val) ==
    CASE val.k = "str"   -> val.v
      [] val.k = "int"   -> IntStr(val.v)
      [] val.k = "float" -> FormatFloatF(val.v[1], val.v[2])
      [] val.k = "nan"   -> Chars("NaN")
      [] val.k \in {"arr", "obj"} -> IF Marshal(val).ok THEN Marshal(val).data ELSE <<>>
      [] val.k = "bool"  -> IF val.v THEN Chars("true") ELSE Chars("false")
      [] OTHER -> <<>>

\* encode(vs): the field texts; its error is always nil
encode(vs) == [i \in 1..Len(vs) |-> encodeField(vs[i])]

\* (*csv.Writer).Write on the CSVWriter's csv.Writer: [w, sink, out, err]
csvWrite(wr, s, o, record) ==
    Bind(bufioWrite(wr.w, s, o, csvLine(wr.comma, record)), LAMBDA x :
        [w |-> [wr EXCEPT !.w = x.b], sink |-> x.sink, out |-> x.out,
         err |-> IF x.ok THEN "" ELSE "write failed"])

\* the header written whenever the options parse, whatever HeaderRow says:
\* the variant that C19 must tell apart from writeHeader
writeHeaderAlways(wr, s, o, opts, titles) ==
    IF opts.ok THEN csvWrite(wr, s, o, titles)
    ELSE [w |-> wr, sink |-> s, out |-> o, err |-> ""]

\* the header NewCSVWriter writes, its error dropped
writeHeader(wr, s, o, opts, titles) ==
    IF opts.ok /\ opts.o.HeaderRow THEN csvWrite(wr, s, o, titles)
    ELSE [w |-> wr, sink |-> s, out |-> o, err |-> ""]

\* NewCSVWriter(st, w): [w, sink, out, err]
NewCSVWriter(s, snk, o) ==
    Bind(terribleHackToGetHeaderRowAndTypes(s), LAMBDA hack :
    Bind(NewCSVOptions(s.FormatConfig), LAMBDA opts :
        writeHeader([rowsWritten |-> 0,
                     w |-> NewBufioWriter,
                     comma |-> IF opts.ok /\ opts.o.Separator # "" THEN opts.o.Separator ELSE ",",
                     types |-> hack.types],
                    snk, o, opts, hack.titles)))

\* WriteEntry taking a value that is no sequence as a row of one field: the
\* variant that C18 must tell apart from CSVWriteEntryCall
CSVWriteEntryCallAnyValue(wr, s, o, ent) ==
    IF ent.value.k = "arr" THEN csvWrite(wr, s, o, encode(ent.value.v))
    ELSE csvWrite(wr, s, o, encode(<<ent.value>>))

\* (*CSVWriter).WriteEntry: [w, sink, out, err]
CSVWriteEntryCall(wr, s, o, ent) ==
    IF ent.value.k = "arr" THEN csvWrite(wr, s, o, encode(ent.value.v))
    ELSE [w |-> wr, sink |-> s, out |-> o, err |-> "expected array value to write csv row"]

\* (*CSVWriter).Close: Flush, its error dropped
CSVCloseCall(wr, s, o) ==
    Bind(bufioFlush(wr.w, s, o), LAMBDA x :
        [w |-> [wr EXCEPT !.w = x.b], sink |-> x.sink, out |-> x.out, err |-> ""])

---------------------------------------------------------------------------
(* replacecr: crlfReplaceReader wraps a buffered reader over the source.   *)
(* rdr is the part of the source not yet drawn by ReadByte; p is the part  *)
(* of the caller's buffer filled so far (n = Len(p)), len its length.      *)

\* the loop of (*crlfReplaceReader).Read: a carriage return that no line
\* feed follows (Peek(1) gives another byte, or fails with EOF) is stored
\* and the line feed is stored at p[n+1] without a look at len(p): on the
\* last slot of p the store is out of range and the call panics
RECURSIVE crlfLoop(_, _, _)
crlfLoop(rdr, p, len) ==
    IF Len(p) = len THEN [rdr |-> rdr, p |-> p, err |-> "", panic |-> FALSE]
    ELSE IF rdr = <<>> THEN [rdr |-> rdr, p |-> p, err |-> "EOF", panic |-> FALSE]
    ELSE IF rdr[1] = "\r" /\ (Len(rdr) = 1 \/ rdr[2] # "\n")
      THEN IF Len(p) + 1 = len
             THEN [rdr |-> Tail(rdr), p |-> p \o <<"\r">>, err |-> "", panic |-> TRUE]
           ELSE crlfLoop(Tail(rdr), p \o <<"\r", "\n">>, len)
    ELSE crlfLoop(Tail(rdr), p \o <<rdr[1]>>, len)

\* (*crlfReplaceReader).Read(p) with len(p) = len
crlfReplaceReaderRead(rdr, len) ==
    IF len = 0 THEN [rdr |-> rdr, p |-> <<>>, err |-> "", panic |-> FALSE]
    ELSE crlfLoop(rdr, <<>>, len)

\* the bytes a consumer draws through the filter with a buffer of len bytes
RECURSIVE readThrough(_, _)
readThrough(rdr, len) ==
    Bind(crlfReplaceReaderRead(rdr, len), LAMBDA x :
        IF x.panic \/ x.err = "EOF" THEN x.p
        ELSE x.p \o readThrough(x.rdr, len))

\* replacecr.Reader(data) under csv.NewReader: the bufio.Reader of the csv
\* reader fills its 4096 byte buffer through the filter
replacecr(in) == readThrough(in, defaultBufSize)

---------------------------------------------------------------------------
(* encoding/csv.Reader on an in-memory stream: rest is the input not yet   *)
(* read, FieldsPerRecord, LazyQuotes and Comma are the Reader's fields.    *)

\* the position of the first ch in s, 0 when there is none
IndexOf(s, ch) ==
    IF \E i \in 1..Len(s) : s[i] = ch
      THEN CHOOSE i \in 1..Len(s) : s[i] = ch /\ \A j \in 1..(i - 1) : s[j] # ch
      ELSE 0

lengthNL(line) == IF line # <<>> /\ line[Len(line)] = "\n" THEN 1 ELSE 0

\* the line ReadSlice('\n') returns, with the end of the input as a line end
rawLine(rest) == IF IndexOf(rest, "\n") = 0 THEN rest ELSE Prefix(rest, IndexOf(rest, "\n"))

\* (*csv.Reader).readLine's normalisation: a '\r' before the end of the input
\* is dropped, "\r\n" becomes "\n"
normLine(line) ==
    IF line # <<>> /\ line[Len(line)] = "\r" THEN Prefix(line, Len(line) - 1)
    ELSE IF Len(line) >= 2 /\ line[Len(line) - 1] = "\r" /\ line[Len(line)] = "\n"
      THEN Prefix(line, Len(line) - 2) \o <<"\n">>
    ELSE line

\* (*csv.Reader).readLine: [line, rest, eof]
readLine(rest) ==
    [line |-> normLine(rawLine(rest)), rest |-> Drop(rest, Len(rawLine(rest))),
     eof |-> rest = <<>>]

\* the empty lines readRecord skips
RECURSIVE skipEmptyLines(_)
skipEmptyLines(rest) ==
    IF rest # <<>> /\ readLine(rest).line = <<"\n">> THEN skipEmptyLines(readLine(rest).rest)
    ELSE rest

\* the parseField loop of readRecord: [fields, rest, err]
RECURSIVE parseField(_, _, _, _), parseQuoted(_, _, _, _, _)
parseField(c, line, rest, fields) ==
    IF line = <<>> \/ line[1] # "\""
      THEN Bind(IndexOf(line, c.Comma), LAMBDA i :
           Bind(IF i > 0 THEN Prefix(line, i - 1) ELSE Prefix(line, Len(line) - lengthNL(line)),
                LAMBDA field :
             IF ~c.LazyQuotes /\ Contains(field, {"\""})
               THEN [fields |-> fields, rest |-> rest, err |-> "bare quote"]
             ELSE IF i > 0 THEN parseField(c, Drop(line, i), rest, Append(fields, field))
             ELSE [fields |-> Append(fields, field), rest |-> rest, err |-> ""]))
      ELSE parseQuoted(c, Tail(line), rest, fields, <<>>)

\* the quoted-field loop; cur is the text of the field so far
parseQuoted(c, line, rest, fields, cur) ==
    IF IndexOf(line, "\"") > 0
      THEN Bind(cur \o Prefix(line, IndexOf(line, "\"") - 1), LAMBDA cur1 :
           Bind(Drop(line, IndexOf(line, "\"")), LAMBDA line1 :
             IF line1 # <<>> /\ line1[1] = "\""
               THEN parseQuoted(c, Tail(line1), rest, fields, cur1 \o <<"\"">>)
             ELSE IF line1 # <<>> /\ line1[1] = c.Comma
               THEN parseField(c, Tail(line1), rest, Append(fields, cur1))
             ELSE IF lengthNL(line1) = Len(line1)
               THEN [fields |-> Append(fields, cur1), rest |-> rest, err |-> ""]
             ELSE IF c.LazyQuotes
               THEN parseQuoted(c, line1, rest, fields, cur1 \o <<"\"">>)
             ELSE [fields |-> fields, rest |-> rest, err |-> "extraneous quote"]))
    ELSE IF line # <<>>
      THEN parseQuoted(c, readLine(rest).line, readLine(rest).rest, fields, cur \o line)
    ELSE IF ~c.LazyQuotes
      THEN [fields |-> fields, rest |-> rest, err |-> "extraneous quote"]
    ELSE [fields |-> Append(fields, cur), rest |-> rest, err |-> ""]

\* the field count check that ends readRecord
checkFieldCount(c, x) ==
    [r |-> [c EXCEPT !.rest = x.rest,
                     !.FieldsPerRecord = IF @ = 0 THEN Len(x.fields) ELSE @],
     record |-> x.fields,
     err |-> IF c.FieldsPerRecord > 0 /\ Len(x.fields) # c.FieldsPerRecord /\ x.err = ""
               THEN "wrong number of fields" ELSE x.err]

\* (*csv.Reader).Read: [r, record, err]; err "" is nil
csvRead(c) ==
    Bind(skipEmptyLines(c.rest), LAMBDA rest :
        IF rest = <<>>
          THEN [r |-> [c EXCEPT !.rest = rest], record |-> <<>>, err |-> "EOF"]
          ELSE checkFieldCount(c, parseField(c, readLine(rest).line, readLine(rest).rest, <<>>)))

---------------------------------------------------------------------------
(* Field coercion *)

\* vals.ParseNumber: the floating-point parse of a field: [ok, val]
ParseNumber(s) ==
    [ok |-> ParseFloat(s).ok, val |-> [k |-> "float", v |-> ParseFloat(s).v]]

\* vals.ParseInteger: the integer parse of a field: [ok, val]
ParseInteger(s) == [ok |-> Atoi(s).ok, val |-> VInt(Atoi(s).v)]

\* vals.ParseBoolean: the boolean parse of a field: [ok, val]
ParseBoolean(s) ==
    [ok |-> s \in {Chars("true"), Chars("false")}, val |-> VBool(s = Chars("true"))]

\* the nested values the field texts of the model encode
Composites ==
    { VArr(<<>>), VArr(<<VFloat(1, 0)>>), VArr(<<VBool(TRUE), VStr("\\")>>),
      VObj(<<>>), VObj(<<<<Chars("k"), VBool(FALSE)>>>>) }

\* json.Unmarshal(text, &target) for a target holding an empty map
\* (kind "obj") or an empty slice (kind "arr"): [ok, val].  JSON null
\* leaves the map as it is and sets the slice to nil.
Unmarshal(text, kind) ==
    IF text = Chars("null")
      THEN [ok |-> TRUE, val |-> [k |-> kind, v |-> <<>>]]
    ELSE IF \E c \in Composites : c.k = kind /\ Marshal(c).data = text
      THEN [ok |-> TRUE, val |-> CHOOSE c \in Composites : c.k = kind /\ Marshal(c).data = text]
    ELSE [ok |-> FALSE, val |-> VNull]

\* decodeField without `vs[i] = str` before the switch, a field whose parse
\* fails staying nil: the variant that C16 must tell apart from decodeField
decodeFieldNoText(type, str) ==
    CASE type = Chars("number")  -> IF ParseNumber(str).ok THEN ParseNumber(str).val ELSE VNull
      [] type = Chars("integer") -> IF ParseInteger(str).ok THEN ParseInteger(str).val ELSE VNull
      [] type = Chars("boolean") -> IF ParseBoolean(str).ok THEN ParseBoolean(str).val ELSE VNull
      [] type = Chars("object")  -> IF Unmarshal(str, "obj").ok THEN Unmarshal(str, "obj").val
                                    ELSE VNull
      [] type = Chars("array")   -> IF Unmarshal(str, "arr").ok THEN Unmarshal(str, "arr").val
                                    ELSE VNull
      [] type = Chars("null")    -> VNull
      [] OTHER -> [k |-> "str", v |-> str]

\* one iteration of decode's loop
decodeField(type, str) ==
    CASE type = Chars("number")  -> IF ParseNumber(str).ok THEN ParseNumber(str).val
                                    ELSE [k |-> "str", v |-> str]
      [] type = Chars("integer") -> IF ParseInteger(str).ok THEN ParseInteger(str).val
                                    ELSE [k |-> "str", v |-> str]
      [] type = Chars("boolean") -> IF ParseBoolean(str).ok THEN ParseBoolean(str).val
                                    ELSE [k |-> "str", v |-> str]
      [] type = Chars("object")  -> IF Unmarshal(str, "obj").ok THEN Unmarshal(str, "obj").val
                                    ELSE [k |-> "str", v |-> str]
      [] type = Chars("array")   -> IF Unmarshal(str, "arr").ok THEN Unmarshal(str, "arr").val
                                    ELSE [k |-> "str", v |-> str]
      [] type = Chars("null")    -> VNull
      [] OTHER -> [k |-> "str", v |-> str]

\* decode without the fall-back to text, the fields past the type list left
\* nil: the variant that C17 must tell apart from decode
decodeNoFallback(types, strings) ==
    [i \in 1..Len(strings) |->
        IF i <= Len(types) THEN decodeField(types[i], strings[i]) ELSE VNull]

\* decode with the fall-back to text kept to the fields past the type list
decodeTypedWherePossible(types, strings) ==
    [i \in 1..Len(strings) |->
        decodeField(IF i <= Len(types) THEN types[i] ELSE Chars("string"), strings[i])]

\* (*CSVReader).decode: the decoded fields; its error is always nil
decode(types, strings) ==
    IF Len(types) < Len(strings)
      THEN [i \in 1..Len(strings) |-> decodeField(Chars("string"), strings[i])]
      ELSE [i \in 1..Len(strings) |-> decodeField(types[i], strings[i])]

---------------------------------------------------------------------------
(* CSVReader *)

\* NewCSVReader(st, r)
NewCSVReader(s, in) ==
    Bind(NewCSVOptions(s.FormatConfig), LAMBDA opts :
        [readHeader |-> FALSE,
         types |-> terribleHackToGetHeaderRowAndTypes(s).types,
         r |-> [rest |-> replacecr(in),
                FieldsPerRecord |-> IF opts.ok /\ opts.o.VariadicFields THEN -1 ELSE 0,
                LazyQuotes |-> opts.ok /\ opts.o.LazyQuotes,
                Comma |-> IF opts.ok /\ opts.o.Separator # "" THEN opts.o.Separator ELSE ","]])

\* the header step of ReadEntry: [r, err]
skipHeader(s, r) ==
    IF r.readHeader THEN [r |-> r, err |-> ""]
    ELSE IF ~HasHeaderRow(s) THEN [r |-> [r EXCEPT !.readHeader = TRUE], err |-> ""]
    ELSE Bind(csvRead(r.r), LAMBDA x :
           IF x.err # "" THEN [r |-> [r EXCEPT !.r = x.r], err |-> x.err]
           ELSE [r |-> [r EXCEPT !.r = x.r, !.readHeader = TRUE], err |-> ""])

\* the record step of ReadEntry: [r, res]
readRecordEntry(r, x) ==
    IF x.err = "EOF" THEN [r |-> [r EXCEPT !.r = x.r], res |-> Result("eof", ZeroEntry, "EOF")]
    ELSE IF x.err # "" THEN [r |-> [r EXCEPT !.r = x.r], res |-> Result("err", ZeroEntry, x.err)]
    ELSE [r |-> [r EXCEPT !.r = x.r],
          res |-> Result("entry",
                         [key |-> <<>>, index |-> 0, value |-> VArr(decode(r.types, x.record))],
                         "")]

\* (*CSVReader).ReadEntry: [r, res]
CSVReadEntryCall(s, r) ==
    Bind(skipHeader(s, r), LAMBDA h :
        IF h.err = "EOF" THEN [r |-> h.r, res |-> Result("eof", ZeroEntry, "EOF")]
        ELSE IF h.err # "" THEN [r |-> h.r, res |-> Result("err", ZeroEntry, h.err)]
        ELSE readRecordEntry(h.r, csvRead(h.r.r)))

---------------------------------------------------------------------------
(* Construction: the document constructors take the structure, and the    *)
(* factory dispatches on the structure's format.                           *)

\* the nil a constructor returns beside an error
NilCodec == [nil |-> TRUE]

\* GetTopLevelType: the schema's "type", which has to be array or object
GetTopLevelType(s) ==
    Bind(Field(s.Schema, "type"), LAMBDA t :
        IF t = VStr("array") THEN [tlt |-> "array", err |-> ""]
        ELSE IF t = VStr("object") THEN [tlt |-> "object", err |-> ""]
        ELSE [tlt |-> "", err |-> "invalid schema. root must be either an array or object type"])

\* a reader constructor that takes the schema check the wrong way round
NewJSONReaderSizeRefusingSchema(s, size) ==
    IF s.Schema # VNull
      THEN [r |-> NilCodec, tlt |-> "", err |-> "schema required for JSON reader"]
    ELSE [r |-> JSONReader(size), tlt |-> "array", err |-> ""]

\* a writer constructor without the schema check
NewJSONWriterUnchecked(s) ==
    Bind(GetTopLevelType(s), LAMBDA t :
        IF t.err # "" THEN [w |-> NilCodec, err |-> t.err]
        ELSE [w |-> JSONWriter(t.tlt), err |-> ""])

\* NewJSONReaderSize(st, r, size): no schema, no reader; nothing is read
NewJSONReaderSize(s, size) ==
    IF s.Schema = VNull
      THEN [r |-> NilCodec, tlt |-> "", err |-> "schema required for JSON reader"]
    ELSE Bind(GetTopLevelType(s), LAMBDA t :
        IF t.err # "" THEN [r |-> NilCodec, tlt |-> "", err |-> t.err]
        ELSE [r |-> JSONReader(size), tlt |-> t.tlt, err |-> ""])

hugeBufferSize == 262144

NewJSONReader(s) == NewJSONReaderSize(s, hugeBufferSize)

\* NewJSONWriter(st, w): no schema, no writer; nothing is written
NewJSONWriter(s) ==
    IF s.Schema = VNull
      THEN [w |-> NilCodec, err |-> "schema required for JSON writer"]
    ELSE Bind(GetTopLevelType(s), LAMBDA t :
        IF t.err # "" THEN [w |-> NilCodec, err |-> t.err]
        ELSE [w |-> JSONWriter(t.tlt), err |-> ""])

\* the binary document codec, of which only the construction is modelled
CBORCodec == [cbor |-> TRUE]

\* NewEntryReader(st, r): the codec of the structure's format on stream in
NewEntryReader(s, in) ==
    IF s.Format = ""
      THEN [kind |-> "", codec |-> NilCodec, tlt |-> "",
            err |-> "structure must have a data format"]
    ELSE IF s.Format = "csv"
      THEN [kind |-> "csv", codec |-> NewCSVReader(s, in), tlt |-> "", err |-> ""]
    ELSE IF s.Format = "json"
      THEN Bind(NewJSONReader(s), LAMBDA x :
               [kind |-> IF x.err = "" THEN "json" ELSE "", codec |-> x.r,
                tlt |-> x.tlt, err |-> x.err])
    ELSE [kind |-> "cbor", codec |-> CBORCodec, tlt |-> "", err |-> ""]

\* NewEntryWriter(st, w): the codec of the structure's format; the tabular
\* writer puts its header into its buffer
NewEntryWriter(s, snk, o) ==
    IF s.Format = ""
      THEN [kind |-> "", codec |-> NilCodec, sink |-> snk, out |-> o,
            err |-> "structure must have a data format"]
    ELSE IF s.Format = "csv"
      THEN Bind(NewCSVWriter(s, snk, o), LAMBDA x :
               [kind |-> "csv", codec |-> x.w, sink |-> x.sink, out |-> x.out,
                err |-> ""])
    ELSE IF s.Format = "json"
      THEN Bind(NewJSONWriter(s), LAMBDA x :
               [kind |-> IF x.err = "" THEN "json" ELSE "", codec |-> x.w,
                sink |-> snk, out |-> o, err |-> x.err])
    ELSE [kind |-> "cbor", codec |-> CBORCodec, sink |-> snk, out |-> o, err |-> ""]

---------------------------------------------------------------------------
(* Inputs of the writer *)

TopLevelTypes == {"array", "object"}

Values ==
    { VNull, VInt(-12), VFloat(25, -1), VFloat(2, 0), VFloat(1, 21),
      VStr("a\"<"),
      VArr(<<VBool(TRUE), VStr("\\")>>),
      VObj(<<<<Chars("k"), VBool(FALSE)>>>>),
      VNaN }

Keys == {<<>>, Chars("a"), Chars("b")}

KeyedValues == { VInt(-12), VArr(<<VBool(TRUE), VStr("\\")>>), VNaN }

\* the entries a caller hands to WriteEntry; the writer reads Key in keyed
\* mode only and never reads Index
Entries(tlt) ==
    IF tlt = "object"
      THEN {[key |-> k, index |-> 0, value |-> v] : k \in Keys, v \in KeyedValues}
      ELSE {[key |-> <<>>, index |-> 0, value |-> v] : v \in Values}

---------------------------------------------------------------------------
(* Inputs of the reader *)

BufSizes == minReadBufferSize..MaxBufSize

\* bytes the source returns per Read: 0 = as many as fit, 1 = one at a time
Chunks == {0, 1}

\* well-formed documents, with their container kind and element count
GoodDocs ==
    { [tlt |-> "array",  n |-> 3, txt |-> Chars("[true,\"a\\\"b\",-1.5e+2]")],
      [tlt |-> "array",  n |-> 3, txt |-> Chars("[ null\t, [1,\"x\"] ,{\"k\":false}\n]")],
      [tlt |-> "array",  n |-> 2, txt |-> Chars("[\"a\\\\\",120]")],
      [tlt |-> "array",  n |-> 0, txt |-> Chars("[]")],
      [tlt |-> "object", n |-> 2, txt |-> Chars("{\"a\":\"\\\\\",\"b\":[12,null]}")],
      [tlt |-> "object", n |-> 2, txt |-> Chars("{\"k\" : 2.50 ,\r\"a\":\"\\u003c\"}")],
      [tlt |-> "object", n |-> 0, txt |-> Chars("{ }")] }

\* documents that are not well formed, or that carry bytes after their end
BadDocs ==
    { Chars("[[tx],1]"),          \* a bad literal as first element of a nested array
      Chars("[[1,tx],1]"),        \* and as a later element
      Chars("[\"\\/\"1]"),        \* an escape strconv rejects, then no comma
      Chars("[\"\\/\",1]"),
      Chars("[1-2 3]"),           \* a number strconv rejects
      Chars("[1 2]"),             \* no comma
      Chars("[,1]"),
      Chars("[1,]"),
      Chars("[t,1]"),
      Chars("[][1]"),            \* bytes after the end of an empty container
      Chars("[1],2"),            \* and of one with an element
      Chars("{\"a\":1,\"a\":2}"),
      Chars("{\"a\" 1}"),
      Chars("{\"\":{\"b\":tx}}"),
      Chars("x[1]"),
      Chars("{\"\":1}") }

Docs == {d.txt : d \in GoodDocs} \cup BadDocs

WhitespaceBytes == <<" ", "\n", "\t", "\r">>

\* a run of n white-space bytes
Pad(n) == [i \in 1..n |-> WhitespaceBytes[(i % 4) + 1]]

\* every document, whole or cut short, after a run of white space
Inputs ==
    UNION {{Pad(k) \o Prefix(d, n) : k \in 0..MaxPad, n \in 0..Len(d)} : d \in Docs}

---------------------------------------------------------------------------
(* The state machine *)

NoReader == [in |-> <<>>, size |-> minReadBufferSize, chunk |-> 0, tlt |-> "array"]

NoWriter == [n |-> 0, failAt |-> 0]

\* the tabular codecs of a session that has none
NoStructure == [Format |-> "json", Schema |-> VNull, FormatConfig |-> NilConfig]

NoCSVWriter == NewCSVWriter(NoStructure, NoWriter, <<>>).w

NoCSVReader == NewCSVReader(NoStructure, <<>>)

\* a session that is no pair of instances
NoInstances == <<>>

\* a writer is constructed on an empty output stream
Init ==
    /\ pc = "write"
    /\ \E tlt \in TopLevelTypes : w = JSONWriter(tlt)
    /\ out = <<>>
    /\ \E f \in 0..MaxFailAt : sink = [n |-> 0, failAt |-> f]
    /\ wlog = <<>>
    /\ cfg = NoReader
    /\ rd = JSONReader(minReadBufferSize)
    /\ results = <<>>
    /\ inst = NoInstances
    /\ st = NoStructure
    /\ cw = NoCSVWriter
    /\ cr = NoCSVReader

\* a reader is constructed on an input stream
InitR ==
    /\ pc = "read"
    /\ w = JSONWriter("array")
    /\ out = <<>>
    /\ sink = NoWriter
    /\ wlog = <<>>
    /\ \E in \in Inputs, size \in BufSizes, chunk \in Chunks, tlt \in TopLevelTypes :
          cfg = [in |-> in, size |-> size, chunk |-> chunk, tlt |-> tlt]
    /\ rd = JSONReader(cfg.size)
    /\ results = <<>>
    /\ inst = NoInstances
    /\ st = NoStructure
    /\ cw = NoCSVWriter
    /\ cr = NoCSVReader

WriteEntry(ent) ==
    /\ pc = "write"
    /\ Len(wlog) < MaxEntries
    /\ \E x \in {WriteEntryCall(w, sink, out, ent)} :
           /\ w' = x.w
           /\ sink' = x.sink
           /\ out' = x.out
           /\ wlog' = Append(wlog, [op |-> "WriteEntry", ent |-> ent, err |-> x.err,
                                    n0 |-> Len(out), n1 |-> Len(x.out)])
    /\ pc' = pc
    /\ UNCHANGED <<inst, cfg, rd, results, st, cw, cr>>

Close ==
    /\ pc = "write"
    /\ \E x \in {CloseCall(w, sink, out)} :
           /\ sink' = x.sink
           /\ out' = x.out
           /\ wlog' = Append(wlog, [op |-> "Close", ent |-> ZeroEntry, err |-> x.err,
                                    n0 |-> Len(out), n1 |-> Len(x.out)])
    /\ pc' = "closed"
    /\ UNCHANGED <<inst, w, cfg, rd, results, st, cw, cr>>

\* the bytes the writer produced are handed to a reader on the same structure
NewReader(size) ==
    /\ pc = "closed"
    /\ pc' = "read"
    /\ cfg' = [in |-> out, size |-> size, chunk |-> 0, tlt |-> w.tlt]
    /\ rd' = JSONReader(size)
    /\ UNCHANGED <<inst, w, out, sink, wlog, results, st, cw, cr>>

Panicked == \E i \in 1..Len(results) : results[i].kind = "panic"

ReadEntry ==
    /\ pc = "read"
    /\ Len(results) < MaxReads
    /\ ~Panicked
    /\ \E x \in {ReadEntryCall(cfg, rd)} :
           /\ rd' = x.r
           /\ results' = Append(results,
                  [kind |-> x.res.kind, ent |-> x.res.ent, msg |-> x.res.msg,
                   init0 |-> rd.initialized, n0 |-> rd.entriesRead,
                   off0 |-> Offset(rd), off1 |-> Offset(x.r),
                   valErr |-> x.r.valErr])
    /\ UNCHANGED <<inst, pc, w, out, sink, wlog, cfg, st, cw, cr>>

Next ==
    \/ \E ent \in Entries(w.tlt) : WriteEntry(ent)
    \/ Close
    \/ \E size \in BufSizes : NewReader(size)
    \/ ReadEntry

Spec == Init /\ [][Next]_vars

NextR == ReadEntry

SpecR == InitR /\ [][NextR]_vars

---------------------------------------------------------------------------
(* Inputs of the tabular codecs *)

Column(title, type) == VObj(<<<<Chars("title"), VStr(title)>>, <<Chars("type"), type>>>>)

TabularSchema(cols) ==
    VObj(<<<<Chars("items"), VObj(<<<<Chars("items"), VArr(cols)>>>>)>>>>)

Schemas ==
    { TabularSchema(<<Column("n", VStr("integer")), Column("s", VStr("string"))>>),
      TabularSchema(<<Column("a", VStr("number")),
                      Column("b", VArr(<<VStr("boolean"), VStr("null")>>)),
                      Column("c", VStr("array"))>>),
      TabularSchema(<<Column("x", VStr("object")), Column("y", VStr("null")),
                      Column("z", VStr("date"))>>),
      TabularSchema(<<VObj(<<<<Chars("type"), VArr(<<>>)>>>>), VInt(7)>>),
      TabularSchema(<<Column("n", VStr("integer"))>>),
      VObj(<<<<Chars("items"), VObj(<<<<Chars("items"), VObj(<<>>)>>>>)>>>>),
      VNull }

Config(headerRow, lazyQuotes, separator, variadicFields) ==
    [isNil |-> FALSE, headerRow |-> headerRow, lazyQuotes |-> lazyQuotes,
     separator |-> separator, variadicFields |-> variadicFields]

Configs ==
    { NilConfig,
      Config(VNull, VNull, VNull, VNull),
      Config(VBool(TRUE), VNull, VNull, VNull),
      Config(VBool(FALSE), VNull, VNull, VNull),
      Config(VStr("yes"), VNull, VNull, VNull),
      Config(VBool(TRUE), VInt(1), VNull, VNull),
      Config(VBool(TRUE), VBool(TRUE), VNull, VNull),
      Config(VBool(TRUE), VNull, VStr(";"), VNull),
      Config(VBool(TRUE), VNull, VStr("ab"), VNull),
      Config(VBool(TRUE), VNull, VNull, VBool(TRUE)) }

\* the structures: tabular ones, and one of another format handed to the
\* tabular constructors all the same
Structures ==
    {[Format |-> "csv", Schema |-> sch, FormatConfig |-> fc] : sch \in Schemas, fc \in Configs}
      \cup {[Format |-> "json", Schema |-> VNull,
             FormatConfig |-> Config(VBool(TRUE), VNull, VNull, VNull)]}

\* the input streams handed to NewCSVReader
CSVInputs ==
    { Chars(""),
      Chars("n,s\n1,foo\n2,bar\n"),
      Chars("n,s\n1,foo\n2,bar"),
      Chars("n,s\r1,foo\r2,bar\r"),
      Chars("n,s\r\n\r\n1,foo\r\n"),
      Chars("n;s\n1;foo\n2;bar\n"),
      Chars("a\"b,c\n1,foo\n2,bar\n"),
      Chars("n,s\n1,foo,x\n2,bar\n"),
      Chars("\"n\nn\",s\n\"1\"x,\"f\"\"oo\"\n2,\"bar"),
      Chars("42,true,hello\nnotanumber,maybe,[1]\n-2.50,false,\"[true,\"\"\\\\\"\"]\"\n"),
      Chars("\"{\"\"k\"\":false}\",7,2019\nnull,,\n{},1,\n"),
      Chars("7\n+8\n1e3\n") }

\* the entries handed to the tabular writer
CSVEntryValues ==
    { VArr(<<VInt(1), VStr("foo")>>),
      VArr(<<VStr("")>>),
      VArr(<<VNull, VFloat(25, -1), VBool(TRUE), VFloat(1, 6)>>),
      VArr(<<VStr(" a,\"b\n"), VArr(<<VBool(TRUE), VStr("\\")>>),
             VObj(<<<<Chars("k"), VBool(FALSE)>>>>), VStr("x;y")>>),
      VNull, VBool(TRUE), VInt(-12), VStr("a"),
      VObj(<<<<Chars("k"), VBool(FALSE)>>>>) }

CSVEntries == {[key |-> <<>>, index |-> 0, value |-> val] : val \in CSVEntryValues}

\* the entries handed to a writer whose output is read back: short rows, one
\* of them a single empty field, one with a field that holds the separator,
\* and two values that are no rows
CSVRoundTripValues ==
    { VArr(<<VInt(1), VStr("foo")>>),
      VArr(<<VStr("")>>),
      VArr(<<VStr("x;y"), VBool(TRUE)>>),
      VNull,
      VObj(<<<<Chars("k"), VBool(FALSE)>>>>) }

CSVRoundTripEntries ==
    {[key |-> <<>>, index |-> 0, value |-> val] : val \in CSVRoundTripValues}

---------------------------------------------------------------------------
(* The tabular state machine: a writer is constructed, takes entries, is   *)
(* closed, and its output is read back; or a reader is constructed on an   *)
(* input stream.                                                           *)

\* a tabular writer is constructed on an empty output stream
InitC ==
    /\ pc = "csvwrite"
    /\ st \in Structures
    /\ \E f \in 0..MaxFailAt :
          \E x \in {NewCSVWriter(st, [n |-> 0, failAt |-> f], <<>>)} :
              /\ cw = x.w
              /\ sink = x.sink
              /\ out = x.out
    /\ cr = NoCSVReader
    /\ wlog = <<>>
    /\ results = <<>>
    /\ inst = NoInstances
    /\ w = JSONWriter("array")
    /\ cfg = NoReader
    /\ rd = JSONReader(minReadBufferSize)

\* a tabular reader is constructed on an input stream
InitCR ==
    /\ pc = "csvread"
    /\ st \in Structures
    /\ \E in \in CSVInputs :
          /\ cfg = [NoReader EXCEPT !.in = in]
          /\ cr = NewCSVReader(st, in)
    /\ cw = NoCSVWriter
    /\ sink = NoWriter
    /\ out = <<>>
    /\ wlog = <<>>
    /\ results = <<>>
    /\ inst = NoInstances
    /\ w = JSONWriter("array")
    /\ rd = JSONReader(minReadBufferSize)

CSVWriteEntry(ent) ==
    /\ pc = "csvwrite"
    /\ Len(wlog) < MaxRows
    /\ \E x \in {CSVWriteEntryCall(cw, sink, out, ent)} :
           /\ cw' = x.w
           /\ sink' = x.sink
           /\ out' = x.out
           /\ wlog' = Append(wlog, [op |-> "WriteEntry", ent |-> ent, err |-> x.err,
                                    n0 |-> Len(out), n1 |-> Len(x.out),
                                    w0 |-> cw, w1 |-> x.w, s0 |-> sink, s1 |-> x.sink])
    /\ UNCHANGED <<inst, pc, st, cr, results, w, cfg, rd>>

CSVClose ==
    /\ pc = "csvwrite"
    /\ \E x \in {CSVCloseCall(cw, sink, out)} :
           /\ cw' = x.w
           /\ sink' = x.sink
           /\ out' = x.out
           /\ wlog' = Append(wlog, [op |-> "Close", ent |-> ZeroEntry, err |-> x.err,
                                    n0 |-> Len(out), n1 |-> Len(x.out),
                                    w0 |-> cw, w1 |-> x.w, s0 |-> sink, s1 |-> x.sink])
    /\ pc' = "csvclosed"
    /\ UNCHANGED <<inst, st, cr, results, w, cfg, rd>>

\* the bytes the writer produced are handed to a reader on the same structure
NewCSVReaderOnOutput ==
    /\ pc = "csvclosed"
    /\ pc' = "csvread"
    /\ cfg' = [NoReader EXCEPT !.in = out]
    /\ cr' = NewCSVReader(st, out)
    /\ UNCHANGED <<inst, st, cw, sink, out, wlog, results, w, rd>>

CSVReadEntry ==
    /\ pc = "csvread"
    /\ Len(results) < MaxReads
    /\ \E x \in {CSVReadEntryCall(st, cr)} :
           /\ cr' = x.r
           /\ results' = Append(results,
                  [kind |-> x.res.kind, ent |-> x.res.ent, msg |-> x.res.msg,
                   hdr0 |-> cr.readHeader, rest0 |-> cr.r.rest, rest1 |-> x.r.r.rest])
    /\ UNCHANGED <<inst, pc, st, cw, sink, out, wlog, w, cfg, rd>>

NextC ==
    \/ \E ent \in CSVRoundTripEntries : CSVWriteEntry(ent)
    \/ CSVClose
    \/ NewCSVReaderOnOutput
    \/ CSVReadEntry

SpecC == InitC /\ [][NextC]_vars

\* the writer alone
NextCW ==
    \/ \E ent \in CSVEntries : CSVWriteEntry(ent)
    \/ CSVClose

SpecCW == InitC /\ [][NextCW]_vars

NextCR == CSVReadEntry

SpecCR == InitCR /\ [][NextCR]_vars

---------------------------------------------------------------------------
(* The line-ending filter on its own: a caller draws the source through    *)
(* Read with buffers of its choice until the end of the stream.            *)

FilterBytes == {"a", "\r", "\n"}

FilterInputs == UNION {[1..n -> FilterBytes] : n \in 0..MaxFilterLen}

InitF ==
    /\ pc = "filter"
    /\ \E in \in FilterInputs :
           /\ cfg = [in |-> in]
           /\ rd = [rdr |-> in]
    /\ results = <<>>
    /\ inst = NoInstances
    /\ w = JSONWriter("array")
    /\ out = <<>>
    /\ sink = NoWriter
    /\ wlog = <<>>
    /\ st = NoStructure
    /\ cw = NoCSVWriter
    /\ cr = NoCSVReader

FilterDone ==
    /\ results # <<>>
    /\ \/ results[Len(results)].panic
       \/ results[Len(results)].err = "EOF"

\* the calls so far that handed over a buffer of no bytes
EmptyReads == {i \in 1..Len(results) : results[i].len = 0}

\* one Read(p) call, len(p) = len
FilterRead(len) ==
    /\ pc = "filter"
    /\ ~FilterDone
    /\ len = 0 => Cardinality(EmptyReads) < MaxEmptyReads
    /\ \E x \in {crlfReplaceReaderRead(rd.rdr, len)} :
           /\ rd' = [rdr |-> x.rdr]
           /\ results' = Append(results,
                  [len |-> len, p |-> x.p, err |-> x.err, panic |-> x.panic])
    /\ UNCHANGED <<inst, pc, w, out, sink, wlog, cfg, st, cw, cr>>

NextF == \E len \in 0..MaxReadLen : FilterRead(len)

SpecF == InitF /\ [][NextF]_vars

---------------------------------------------------------------------------
(* Construction: a caller holding a structure and a stream asks the        *)
(* factory or a document constructor for a codec and, having got one,      *)
(* uses it.                                                                *)

BaseSchemaArray == VObj(<<<<Chars("type"), VStr("array")>>>>)

BaseSchemaObject == VObj(<<<<Chars("type"), VStr("object")>>>>)

FactorySchemas ==
    { VNull, BaseSchemaArray, BaseSchemaObject,
      TabularSchema(<<Column("n", VStr("integer")), Column("s", VStr("string"))>>) }

\* structures with and without a format; the binary format with the one
\* schema its construction is known for
FactoryStructures ==
    {[Format |-> f, Schema |-> sch, FormatConfig |-> fc] :
        f \in {"", "csv", "json"}, sch \in FactorySchemas,
        fc \in {NilConfig, Config(VBool(TRUE), VNull, VNull, VNull)}}
      \cup {[Format |-> "cbor", Schema |-> BaseSchemaArray, FormatConfig |-> NilConfig]}

FactoryInputs ==
    { Chars("[1,\"a\"]"), Chars("{\"a\":1,\"b\":null}"), Chars("n,s\n1,foo\n") }

FactoryEntries ==
    { [key |-> <<>>, index |-> 0, value |-> VInt(-12)],
      [key |-> Chars("a"), index |-> 0, value |-> VArr(<<VBool(TRUE), VStr("\\")>>)],
      [key |-> Chars("a"), index |-> 0, value |-> VNaN] }

InitN ==
    /\ pc = "new"
    /\ st \in FactoryStructures
    /\ \E in \in FactoryInputs :
          cfg = [in |-> in, size |-> minReadBufferSize, chunk |-> 0, tlt |-> "",
                 op |-> "", err |-> "", codec |-> ""]
    /\ rd = JSONReader(minReadBufferSize)
    /\ w = JSONWriter("array")
    /\ cr = NoCSVReader
    /\ cw = NoCSVWriter
    /\ sink = NoWriter
    /\ out = <<>>
    /\ wlog = <<>>
    /\ results = <<>>
    /\ inst = NoInstances

\* where the caller stands after a constructor has returned
After(dir, x) ==
    IF x.err # "" THEN "failed"
    ELSE IF x.kind = "cbor" THEN "cbor"
    ELSE IF x.kind = "csv" THEN "csv" \o dir
    ELSE dir

CallNewEntryReader ==
    /\ pc = "new"
    /\ \E x \in {NewEntryReader(st, cfg.in)} :
           /\ pc' = After("read", x)
           /\ cfg' = [cfg EXCEPT !.op = "NewEntryReader", !.err = x.err,
                                 !.codec = x.kind, !.tlt = x.tlt,
                                 !.size = hugeBufferSize]
           /\ rd' = IF x.kind = "json" THEN x.codec ELSE rd
           /\ cr' = IF x.kind = "csv" THEN x.codec ELSE cr
    /\ UNCHANGED <<inst, w, out, sink, wlog, results, st, cw>>

CallNewEntryWriter ==
    /\ pc = "new"
    /\ \E x \in {NewEntryWriter(st, sink, out)} :
           /\ pc' = After("write", x)
           /\ cfg' = [cfg EXCEPT !.op = "NewEntryWriter", !.err = x.err,
                                 !.codec = x.kind]
           /\ w' = IF x.kind = "json" THEN x.codec ELSE w
           /\ cw' = IF x.kind = "csv" THEN x.codec ELSE cw
           /\ sink' = x.sink
           /\ out' = x.out
    /\ UNCHANGED <<inst, wlog, rd, results, st, cr>>

CallNewJSONReaderSize ==
    /\ pc = "new"
    /\ \E x \in {NewJSONReaderSize(st, cfg.size)} :
           /\ pc' = IF x.err = "" THEN "read" ELSE "failed"
           /\ cfg' = [cfg EXCEPT !.op = "NewJSONReaderSize", !.err = x.err,
                                 !.codec = IF x.err = "" THEN "json" ELSE "",
                                 !.tlt = x.tlt]
           /\ rd' = IF x.err = "" THEN x.r ELSE rd
    /\ UNCHANGED <<inst, w, out, sink, wlog, results, st, cw, cr>>

CallNewJSONWriter ==
    /\ pc = "new"
    /\ \E x \in {NewJSONWriter(st)} :
           /\ pc' = IF x.err = "" THEN "write" ELSE "failed"
           /\ cfg' = [cfg EXCEPT !.op = "NewJSONWriter", !.err = x.err,
                                 !.codec = IF x.err = "" THEN "json" ELSE ""]
           /\ w' = IF x.err = "" THEN x.w ELSE w
    /\ UNCHANGED <<inst, out, sink, wlog, rd, results, st, cw, cr>>

NextN ==
    \/ CallNewEntryReader
    \/ CallNewEntryWriter
    \/ CallNewJSONReaderSize
    \/ CallNewJSONWriter
    \/ ReadEntry
    \/ \E ent \in FactoryEntries : WriteEntry(ent)
    \/ Close
    \/ CSVReadEntry
    \/ \E ent \in CSVEntries : CSVWriteEntry(ent)
    \/ CSVClose

SpecN == InitN /\ [][NextN]_vars

---------------------------------------------------------------------------
(* Two document writers side by side, each constructed on its own output   *)
(* stream; the caller interleaves its calls on them as it likes.           *)

PairStructures ==
    {[Format |-> "json", Schema |-> sch, FormatConfig |-> NilConfig] :
        sch \in {BaseSchemaArray, BaseSchemaObject}}

\* a writer with its stream and the history of the calls made on it
NewInstance(s) ==
    [w |-> NewJSONWriter(s).w, sink |-> NoWriter, out |-> <<>>, log |-> <<>>,
     closed |-> FALSE]

\* a receiver whose set of written keys is one set kept for all instances
receiverSharingKeys(is, i) ==
    [is[i] EXCEPT !.w.keysWritten = UNION {is[j].w.keysWritten : j \in DOMAIN is}]

\* the receiver of a method call: the instance itself, fields and stream
receiver(is, i) == is[i]

InitI ==
    /\ pc = "pair"
    /\ inst \in [1..2 -> {NewInstance(s) : s \in PairStructures}]
    /\ w = JSONWriter("array")
    /\ out = <<>>
    /\ sink = NoWriter
    /\ wlog = <<>>
    /\ cfg = NoReader
    /\ rd = JSONReader(minReadBufferSize)
    /\ results = <<>>
    /\ st = NoStructure
    /\ cw = NoCSVWriter
    /\ cr = NoCSVReader

InstWriteEntry(i, ent) ==
    /\ pc = "pair"
    /\ ~inst[i].closed
    /\ Len(inst[i].log) < MaxPairCalls
    /\ \E me \in {receiver(inst, i)} :
         \E x \in {WriteEntryCall(me.w, me.sink, me.out, ent)} :
           inst' = [inst EXCEPT ![i] =
                      [w |-> x.w, sink |-> x.sink, out |-> x.out,
                       log |-> Append(me.log, [op |-> "WriteEntry", ent |-> ent,
                                               err |-> x.err]),
                       closed |-> FALSE]]
    /\ UNCHANGED <<pc, w, out, sink, wlog, cfg, rd, results, st, cw, cr>>

InstClose(i) ==
    /\ pc = "pair"
    /\ ~inst[i].closed
    /\ \E me \in {receiver(inst, i)} :
         \E x \in {CloseCall(me.w, me.sink, me.out)} :
           inst' = [inst EXCEPT ![i] =
                      [w |-> me.w, sink |-> x.sink, out |-> x.out,
                       log |-> Append(me.log, [op |-> "Close", ent |-> ZeroEntry,
                                               err |-> x.err]),
                       closed |-> TRUE]]
    /\ UNCHANGED <<pc, w, out, sink, wlog, cfg, rd, results, st, cw, cr>>

NextI ==
    \/ \E i \in 1..2, ent \in FactoryEntries : InstWriteEntry(i, ent)
    \/ \E i \in 1..2 : InstClose(i)

SpecI == InitI /\ [][NextI]_vars

---------------------------------------------------------------------------
(* NewCSVOptions on its own: a caller hands it a configuration map.        *)

\* the two bytes of the one character U+00E9 in UTF-8, named by their value
EAcute == [k |-> "str", v |-> <<"C3", "A9">>]

OptionValues == {VNull, VBool(TRUE), VBool(FALSE), VStr("yes"), VInt(1)}

SeparatorValues ==
    {VNull, VStr(","), VStr(";"), VStr("\t"), VStr(""), VStr("ab"), EAcute,
     VInt(59), VBool(TRUE)}

OptionMaps ==
    {NilConfig} \cup
    {Config(h, l, sep, vf) : h \in OptionValues, l \in OptionValues,
                             sep \in SeparatorValues, vf \in OptionValues}

InitO ==
    /\ pc = "options"
    /\ \E opts \in OptionMaps :
          st = [Format |-> "csv", Schema |-> VNull, FormatConfig |-> opts]
    /\ results = <<>>
    /\ inst = NoInstances
    /\ w = JSONWriter("array")
    /\ out = <<>>
    /\ sink = NoWriter
    /\ wlog = <<>>
    /\ cfg = NoReader
    /\ rd = JSONReader(minReadBufferSize)
    /\ cw = NoCSVWriter
    /\ cr = NoCSVReader

CallNewCSVOptions ==
    /\ pc = "options"
    /\ pc' = "parsed"
    /\ results' = <<NewCSVOptions(st.FormatConfig)>>
    /\ UNCHANGED <<inst, w, out, sink, wlog, cfg, rd, st, cw, cr>>

NextO == CallNewCSVOptions

SpecO == InitO /\ [][NextO]_vars

---------------------------------------------------------------------------
(* CSVOptions.Map and back: a caller turns an options value into a         *)
(* configuration map and hands the map to NewCSVOptions.                   *)

\* a Go rune as a value of a configuration map: not a string
VRune(ch) == [k |-> "rune", v |-> ch]

\* (*CSVOptions).Map on a non-nil receiver: a flag is in the map only when
\* set, the separator only when not rune(0), and then as a rune
Map(o) ==
    Config(IF o.HeaderRow THEN VBool(TRUE) ELSE VNull,
           IF o.LazyQuotes THEN VBool(TRUE) ELSE VNull,
           IF o.Separator # "" THEN VRune(o.Separator) ELSE VNull,
           IF o.VariadicFields THEN VBool(TRUE) ELSE VNull)

\* the separators of the options values; "" is rune(0)
Separators == {"", ",", ";", "\t", "|", ":", " "}

CSVOptionsValues ==
    {[HeaderRow |-> h, LazyQuotes |-> l, Separator |-> sep, VariadicFields |-> vf] :
        h \in BOOLEAN, l \in BOOLEAN, sep \in Separators, vf \in BOOLEAN}

\* cfg holds the options value, st.FormatConfig the map made of it
InitM ==
    /\ pc = "value"
    /\ cfg \in CSVOptionsValues
    /\ st = [Format |-> "csv", Schema |-> VNull, FormatConfig |-> NilConfig]
    /\ results = <<>>
    /\ inst = NoInstances
    /\ w = JSONWriter("array")
    /\ out = <<>>
    /\ sink = NoWriter
    /\ wlog = <<>>
    /\ rd = JSONReader(minReadBufferSize)
    /\ cw = NoCSVWriter
    /\ cr = NoCSVReader

CallMap ==
    /\ pc = "value"
    /\ pc' = "options"
    /\ st' = [st EXCEPT !.FormatConfig = Map(cfg)]
    /\ UNCHANGED <<inst, w, out, sink, wlog, cfg, rd, results, cw, cr>>

NextM ==
    \/ CallMap
    \/ CallNewCSVOptions

SpecM == InitM /\ [][NextM]_vars

---------------------------------------------------------------------------
(* The document reader on well-formed documents given token by token, with *)
(* a run of white space put before one of the tokens.                      *)

TokenDocs ==
    { [tlt |-> "array",
       toks |-> <<"[", "true", ",", "\"a\\\"b\"", ",", "-1.5e+2", ",", "[", "1", ",",
                  "\"x\"", "]", ",", "{", "\"k\"", ":", "false", "}", "]">>],
      [tlt |-> "array", toks |-> <<"[", "\"a\\\\\"", ",", "120", ",", "null", "]">>],
      [tlt |-> "array", toks |-> <<"[", "]">>],
      [tlt |-> "object",
       toks |-> <<"{", "\"k\"", ":", "2.50", ",", "\"a\"", ":", "\"\\u003c\"", ",",
                  "\"b\"", ":", "[", "12", ",", "null", "]", "}">>],
      [tlt |-> "object", toks |-> <<"{", "}">>] }

\* the bytes of tokens from..Len(toks), a run of n white-space bytes put
\* before token at
RECURSIVE Spaced(_, _, _, _)
Spaced(toks, from, at, n) ==
    IF from > Len(toks) THEN <<>>
    ELSE (IF from = at THEN Pad(n) ELSE <<>>) \o Chars(toks[from])
         \o Spaced(toks, from + 1, at, n)

InitW ==
    /\ pc = "read"
    /\ \E d \in TokenDocs, size \in BufSizes, chunk \in Chunks :
         \E at \in 1..Len(d.toks), n \in 0..MaxPad :
            cfg = [in |-> Spaced(d.toks, 1, at, n), size |-> size, chunk |-> chunk,
                   tlt |-> d.tlt, plain |-> Spaced(d.toks, 1, 0, 0)]
    /\ rd = JSONReader(cfg.size)
    /\ results = <<>>
    /\ inst = NoInstances
    /\ w = JSONWriter("array")
    /\ out = <<>>
    /\ sink = NoWriter
    /\ wlog = <<>>
    /\ st = NoStructure
    /\ cw = NoCSVWriter
    /\ cr = NoCSVReader

NextW == ReadEntry

SpecW == InitW /\ [][NextW]_vars

---------------------------------------------------------------------------
(* What the histories say *)

WriteCalls == {i \in 1..Len(wlog) : wlog[i].op = "WriteEntry"}

Closed == \E i \in 1..Len(wlog) : wlog[i].op = "Close"

CloseOk == \E i \in 1..Len(wlog) : wlog[i].op = "Close" /\ wlog[i].err = ""

AllAccepted == \A i \in WriteCalls : wlog[i].err = ""

KeyErrors == {"entry key cannot be empty", "key already written"}

\* the text of one entry in the output: the bare value, or "key":value
EncodedEntry(tlt, ent) ==
    IF tlt = "object" THEN Quote(ent.key) \o <<":">> \o Marshal(ent.value).data
    ELSE Marshal(ent.value).data

\* the entries of calls 1..n, each but the first after one comma
RECURSIVE EncodedEntries(_, _)
EncodedEntries(tlt, n) ==
    IF n = 0 THEN <<>>
    ELSE EncodedEntries(tlt, n - 1) \o (IF n > 1 THEN <<",">> ELSE <<>>)
         \o EncodedEntry(tlt, wlog[n].ent)

---------------------------------------------------------------------------
(* Claims about the document writer *)

\* C3: in keyed mode WriteEntry returns an error for every entry whose key is
\* empty and for every entry whose key was already written in the session, so
\* the keys of the entries in the output are non-empty and pairwise distinct.
C3_KeyedWriterRejectsEmptyAndRepeatedKeys ==
    w.tlt = "object" =>
        /\ \A i \in WriteCalls :
              (\/ wlog[i].ent.key = <<>>
               \/ \E j \in WriteCalls :
                     j < i /\ wlog[j].err = "" /\ wlog[j].ent.key = wlog[i].ent.key)
              => wlog[i].err # ""
        /\ \A i \in WriteCalls :
              wlog[i].n1 > wlog[i].n0 /\ wlog[i].err = "" =>
                  /\ wlog[i].ent.key # <<>>
                  /\ \A j \in WriteCalls :
                        j # i /\ wlog[j].err = "" => wlog[j].ent.key # wlog[i].ent.key

\* a keyed session in which an entry was written, a later entry with the same
\* key was refused and an entry with the empty key was refused
C3_Witness ==
    /\ w.tlt = "object"
    /\ \E i, j, k \in WriteCalls :
          /\ i < j
          /\ wlog[i].err = "" /\ wlog[i].ent.key # <<>>
          /\ wlog[j].ent.key = wlog[i].ent.key /\ wlog[j].err = "key already written"
          /\ wlog[k].ent.key = <<>> /\ wlog[k].err = "entry key cannot be empty"

\* C4: a WriteEntry call that fails on an empty or repeated key writes no byte
\* to the output stream, whether it is the first call of the session or not.
C4_KeyViolationWritesNothing ==
    \A i \in WriteCalls : wlog[i].err \in KeyErrors => wlog[i].n1 = wlog[i].n0

\* C5: Close after zero WriteEntry calls emits exactly [] (ordered) or {}
\* (keyed) and nothing else.
C5_EmptySessionEmitsEmptyContainer ==
    (Len(wlog) >= 1 /\ wlog[1].op = "Close" /\ wlog[1].err = "") =>
        out = (IF w.tlt = "object" THEN Chars("{}") ELSE Chars("[]"))

\* a keyed session closed without a write
C5_Witness ==
    /\ w.tlt = "object"
    /\ Len(wlog) = 1 /\ wlog[1].op = "Close" /\ wlog[1].err = ""
    /\ w.rowsWritten = 0

\* C6: after N >= 1 successful WriteEntry calls and Close the output is the
\* opening delimiter, the N encoded entries in call order with one comma
\* before each but the first, and the closing delimiter.
C6_WriterFraming ==
    (CloseOk /\ AllAccepted /\ WriteCalls # {}) =>
        out = <<OpenDelim(w.tlt)>>
              \o EncodedEntries(w.tlt, Cardinality(WriteCalls))
              \o <<CloseDelim(w.tlt)>>

\* two entries written and the session closed, in keyed mode
C6_Witness ==
    /\ w.tlt = "object"
    /\ CloseOk /\ AllAccepted
    /\ Cardinality(WriteCalls) = 2

---------------------------------------------------------------------------
(* Claims about writer and reader together *)

\* C1: the entries accepted by a writer (WriteEntry x N, then Close) come
\* back from a reader fed the writer's output: N entries with the same values
\* (and keys, in keyed mode) in the same order, then end-of-stream.
C1_RoundTrip ==
    (pc = "read" /\ CloseOk /\ AllAccepted) =>
        \A i \in 1..Len(results) :
            LET n == Cardinality(WriteCalls)
            IN  /\ i <= n =>
                     /\ results[i].kind = "entry"
                     /\ results[i].ent.value = wlog[i].ent.value
                     /\ cfg.tlt = "object" => results[i].ent.key = wlog[i].ent.key
                /\ i = n + 1 => results[i].kind = "eof"

---------------------------------------------------------------------------
(* Claims about the document reader *)

\* what a ReadEntry call returned to its caller
Outcome(res) ==
    [kind |-> res.kind, msg |-> res.msg,
     ent |-> IF res.kind = "entry" THEN res.ent ELSE ZeroEntry]

\* the outcomes of n successive ReadEntry calls, ended by a panic
RECURSIVE ReadAll(_, _, _)
ReadAll(c, r, n) ==
    IF n = 0 THEN <<>>
    ELSE Bind(ReadEntryCall(c, r), LAMBDA x :
            <<Outcome(x.res)>>
            \o (IF x.res.kind = "panic" THEN <<>> ELSE ReadAll(c, x.r, n - 1)))

\* the same input read through a buffer that holds all of it, filled by one Read
WholeInput(c) == [c EXCEPT !.size = Len(c.in) + minReadBufferSize, !.chunk = 0]

\* results[i] belongs to the session proper: no call before it returned
\* end-of-stream or an error
InSession(i) == \A j \in 1..(i - 1) : results[j].kind = "entry"

\* the offset of the first byte at or after off that is not white space
RECURSIVE SkipWhitespace(_, _)
SkipWhitespace(in, off) ==
    IF off < Len(in) /\ isWhitespace(in[off + 1]) THEN SkipWhitespace(in, off + 1)
    ELSE off

\* the first byte at or after off that is not white space; "" at the end
NextByte(in, off) ==
    LET p == SkipWhitespace(in, off)
    IN  IF p < Len(in) THEN in[p + 1] ELSE ""

\* C2: the results of successive ReadEntry calls, up to the first that is
\* not an entry, are the same for every buffer size and every chunking of the
\* source as when the whole input is buffered at once.
C2_BufferBoundaryInvariance ==
    pc = "read" =>
        LET ref == ReadAll(WholeInput(cfg), JSONReader(WholeInput(cfg).size),
                           Len(results))
        IN  \A i \in 1..Len(results) :
                InSession(i) => /\ i <= Len(ref)
                                /\ Outcome(results[i]) = ref[i]

\* the bytes a call consumed are white space and the delimiters given
ConsumedOnly(i, delims) ==
    LET seg == SubSeq(cfg.in, results[i].off0 + 1, results[i].off1)
        rest == SelectSeq(seg, LAMBDA b : ~isWhitespace(b))
    IN  rest = delims

\* the input after its leading white space
Body(in) == Drop(in, SkipWhitespace(in, 0))

\* the input is a well-formed document of the reader's kind after white space
WellFormedInput(d) == d.tlt = cfg.tlt /\ Body(cfg.in) = d.txt

\* the input is such a document cut short before its closing delimiter
CutShortInput(d) ==
    /\ d.tlt = cfg.tlt
    /\ Len(Body(cfg.in)) < Len(d.txt)
    /\ IsPrefix(Body(cfg.in), d.txt)

\* C7, first part: end-of-stream is returned only by a call that consumed the
\* closing delimiter of the top-level container.
C7_EofOnlyAtClosingDelimiter ==
    \A i \in 1..Len(results) :
        results[i].kind = "eof" =>
            IF results[i].init0 THEN ConsumedOnly(i, <<CloseDelim(cfg.tlt)>>)
            ELSE ConsumedOnly(i, <<OpenDelim(cfg.tlt), CloseDelim(cfg.tlt)>>)

\* C7, second part: a well-formed container of N elements gives N entries and
\* then end-of-stream.
C7_WellFormedEndsWithEof ==
    \A d \in GoodDocs :
        WellFormedInput(d) =>
            \A i \in 1..Len(results) :
                /\ i <= d.n => results[i].kind = "entry"
                /\ i = d.n + 1 => results[i].kind = "eof"

\* C7, third part: an input that ends before the closing delimiter gives an
\* error and never end-of-stream.
C7_CutShortEndsWithError ==
    \A d \in GoodDocs :
        CutShortInput(d) =>
            /\ \A i \in 1..Len(results) : results[i].kind \in {"entry", "err"}
            /\ Len(results) >= d.n + 2 =>
                  \E i \in 1..Len(results) : results[i].kind = "err"

\* C7: ReadEntry returns end-of-stream only in a call that consumed the
\* matching top-level closing delimiter; a well-formed container of N elements
\* gives N entries and then end-of-stream; an input that ends before the
\* closing delimiter gives an error, never end-of-stream.
C7_EndOfStream ==
    pc = "read" =>
        /\ C7_EofOnlyAtClosingDelimiter
        /\ C7_WellFormedEndsWithEof
        /\ C7_CutShortEndsWithError

OpeningErrors == {"Expected: opening object '{'", "Expected: opening array '['"}

SeparatorError == "Expected: separator ','"

\* C8: while the container has not been opened, ReadEntry returns an error
\* and no entry unless the next byte that is not white space is the opening
\* delimiter of the schema's container kind.
C8_OpeningDelimiterRequired ==
    pc = "read" =>
        \A i \in 1..Len(results) :
            (~results[i].init0
             /\ NextByte(cfg.in, results[i].off0) # OpenDelim(cfg.tlt)) =>
                /\ results[i].kind = "err"
                /\ results[i].msg \in OpeningErrors
                /\ results[i].ent = ZeroEntry

\* a first call refused: the input opens with the other kind's delimiter
\* after a run of white space that fills the buffer
C8_Witness ==
    /\ pc = "read"
    /\ Len(results) >= 1
    /\ results[1].kind = "err" /\ results[1].msg \in OpeningErrors
    /\ SkipWhitespace(cfg.in, 0) >= cfg.size
    /\ NextByte(cfg.in, 0) = (IF cfg.tlt = "object" THEN "[" ELSE "{")

\* an earlier call got past the opening and closing delimiters: it returned
\* an entry or failed while decoding one
Started(i) ==
    \E j \in 1..(i - 1) :
        \/ results[j].kind = "entry"
        \/ results[j].kind = "err" /\ results[j].msg \notin OpeningErrors \cup {SeparatorError}

\* the call needed a comma: without one (and without the closing delimiter)
\* it returns the separator error and no entry
NeedsComma(i) ==
    NextByte(cfg.in, results[i].off0) \notin {",", CloseDelim(cfg.tlt)} =>
        /\ results[i].kind = "err"
        /\ results[i].msg = SeparatorError
        /\ results[i].ent = ZeroEntry

\* C9, as claimed: a comma is required before the next value exactly when an
\* entry has already been produced in the session.
C9_CommaIffEntryProduced ==
    pc = "read" =>
        \A i \in 1..Len(results) :
            /\ results[i].n0 >= 1 => NeedsComma(i)
            /\ results[i].n0 = 0 => results[i].msg # SeparatorError

\* C9, amended: a comma is required before the next value exactly when an
\* earlier call of the session got past the opening and closing delimiters
\* (it produced an entry or failed while decoding one).
C9_CommaIffStarted ==
    pc = "read" =>
        \A i \in 1..Len(results) :
            /\ Started(i) => NeedsComma(i)
            /\ ~Started(i) => results[i].msg # SeparatorError

\* after a first entry, a call that finds a value where the comma should be
\* is refused; the first entry itself was read without a comma
C9_Witness ==
    /\ pc = "read"
    /\ Len(results) >= 2
    /\ results[1].kind = "entry"
    /\ NextByte(cfg.in, results[1].off0 + 1) \in Digits
    /\ NextByte(cfg.in, results[2].off0) \in Digits
    /\ results[2].kind = "err" /\ results[2].msg = SeparatorError

\* C10: when decoding a value fails at any nesting depth, the ReadEntry call
\* returns an error, not an entry built from what was collected so far.
C10_DecodeErrorsPropagate ==
    pc = "read" =>
        \A i \in 1..Len(results) :
            results[i].valErr => results[i].kind # "entry"

\* the offset at which the call recorded as results[i] looks for its value:
\* past the opening delimiter on the first call and past the comma on later
\* ones; -1 when the input does not bring the call that far
ValueStart(i) ==
    Bind(SkipWhitespace(cfg.in, results[i].off0), LAMBDA p0 :
        IF NextByte(cfg.in, p0) # (IF results[i].init0 THEN "," ELSE OpenDelim(cfg.tlt))
          THEN -1
        ELSE IF ~results[i].init0 /\ NextByte(cfg.in, p0 + 1) = CloseDelim(cfg.tlt)
          THEN -1
        ELSE SkipWhitespace(cfg.in, p0 + 1))

\* from offset p, inside a quoted string, the input ends before a closing quote
RECURSIVE EndsInsideString(_, _)
EndsInsideString(in, p) ==
    IF p >= Len(in) THEN TRUE
    ELSE IF in[p + 1] = "\\" THEN EndsInsideString(in, p + 2)
    ELSE IF in[p + 1] = "\"" THEN FALSE
    ELSE EndsInsideString(in, p + 1)

\* a quoted string opens at offset p and the input ends inside it
UnterminatedString(in, p) ==
    p >= 0 /\ p < Len(in) /\ in[p + 1] = "\"" /\ EndsInsideString(in, p + 1)

\* the literal a value starting with the byte b has to spell
LiteralFor(b) ==
    CASE b = "n" -> Chars("null") [] b = "t" -> Chars("true") [] OTHER -> Chars("false")

\* at offset p a value starts with n, t or f and does not spell its literal
MisspeltLiteral(in, p) ==
    /\ p >= 0 /\ p < Len(in)
    /\ in[p + 1] \in {"n", "t", "f"}
    /\ ~IsPrefix(LiteralFor(in[p + 1]), Drop(in, p))

\* C11: in ordered mode, a ReadEntry call whose value is a quoted string the
\* input ends inside of (also right after a backslash), or a word starting
\* with n, t or f that does not spell null, true or false, returns an error:
\* it does not crash and returns no entry, for every buffer size and chunking.
C11_MalformedTokensAreErrors ==
    (pc = "read" /\ cfg.tlt = "array") =>
        \A i \in 1..Len(results) :
            (\/ UnterminatedString(cfg.in, ValueStart(i))
             \/ MisspeltLiteral(cfg.in, ValueStart(i)))
            => results[i].kind = "err"

\* the number of calls before results[i] that returned an entry
EntriesBefore(i) == Cardinality({j \in 1..(i - 1) : results[j].kind = "entry"})

\* C12: in ordered mode the k-th entry returned carries index k-1, and the
\* counter of produced entries goes up by one with each returned entry and
\* stays as it is over a call that returns an error or end-of-stream.
C12_OrderedIndices ==
    (pc = "read" /\ cfg.tlt = "array") =>
        /\ \A i \in 1..Len(results) :
              /\ results[i].n0 = EntriesBefore(i)
              /\ results[i].kind = "entry" => results[i].ent.index = EntriesBefore(i)
        /\ rd.entriesRead = EntriesBefore(Len(results) + 1)

\* three entries with indices 0, 1, 2, and a failed call among the calls
C12_Witness ==
    /\ pc = "read" /\ cfg.tlt = "array"
    /\ \E i, j, l, e \in 1..Len(results) :
          /\ i < j /\ j < l
          /\ results[i].kind = "entry" /\ results[i].ent.index = 0
          /\ results[j].kind = "entry" /\ results[j].ent.index = 1
          /\ results[l].kind = "entry" /\ results[l].ent.index = 2
          /\ results[e].kind = "err"

\* C13: in a reader session over a keyed container every returned entry has
\* a non-empty key, and no two returned entries have the same key.
C13_KeyedReaderKeys ==
    (pc = "read" /\ cfg.tlt = "object") =>
        \A i \in 1..Len(results) :
            results[i].kind = "entry" =>
                /\ results[i].ent.key # <<>>
                /\ \A j \in 1..(i - 1) :
                      results[j].kind = "entry" => results[j].ent.key # results[i].ent.key


---------------------------------------------------------------------------
(* The tabular reader *)

\* the calls of the history so far that returned an entry
CSVEntryCalls == {i \in 1..Len(results) : results[i].kind = "entry"}

\* the number of entries returned before call i
CSVEntriesBefore(i) == Cardinality({j \in CSVEntryCalls : j < i})

\* C14: the entry the tabular reader returns for the k-th data record has
\* index k-1: every returned entry carries the number of entries returned
\* before it.
C14_TabularIndices ==
    pc = "csvread" =>
        \A i \in CSVEntryCalls : results[i].ent.index = CSVEntriesBefore(i)

\* the physical records csv.Reader finds from state c on, each with the
\* error its parse ends in ("" for none)
RECURSIVE PhysicalRecords(_)
PhysicalRecords(c) ==
    Bind(csvRead(c), LAMBDA x :
        IF x.err = "EOF" THEN <<>>
        ELSE <<[record |-> x.record, err |-> x.err]>> \o PhysicalRecords(x.r))

\* the physical records of the whole input
InputRecords == PhysicalRecords(NewCSVReader(st, cfg.in).r)

\* the configuration is one NewCSVOptions accepts
ValidConfig == NewCSVOptions(st.FormatConfig).ok

\* the configuration marks a header row present
HeaderMarked == ~st.FormatConfig.isNil /\ st.FormatConfig.headerRow = VBool(TRUE)

\* call i returns what the physical record number i + h holds: its entry,
\* its error, or the end of the stream when there is no such record
ReturnsRecord(i, h) ==
    IF i + h <= Len(InputRecords)
      THEN IF InputRecords[i + h].err = ""
             THEN /\ results[i].kind = "entry"
                  /\ results[i].ent.value = VArr(decode(cr.types, InputRecords[i + h].record))
             ELSE results[i].kind = "err"
      ELSE results[i].kind = "eof"

\* C15: on a tabular structure whose configuration marks a header row
\* present, the first physical record and no other is discarded: the i-th
\* ReadEntry call returns physical record i + 1; without the header flag
\* nothing is discarded: the i-th call returns physical record i.
C15_HeaderSkip ==
    (pc = "csvread" /\ st.Format = "csv" /\ ValidConfig) =>
        \A i \in 1..Len(results) : ReturnsRecord(i, IF HeaderMarked THEN 1 ELSE 0)

\* the column descriptors of the schema
SchemaColumns ==
    IF Field(Field(st.Schema, "items"), "items").k = "arr"
      THEN Field(Field(st.Schema, "items"), "items").v
      ELSE <<>>

\* the type the schema declares for column j: the type name, the first of a
\* list of type names, no type otherwise
DeclaredType(j) ==
    IF j > Len(SchemaColumns) THEN <<>>
    ELSE IF Field(SchemaColumns[j], "type").k = "str" THEN Field(SchemaColumns[j], "type").v
    ELSE IF Field(SchemaColumns[j], "type").k = "arr"
            /\ Field(SchemaColumns[j], "type").v # <<>>
            /\ Field(SchemaColumns[j], "type").v[1].k = "str"
      THEN Field(SchemaColumns[j], "type").v[1].v
    ELSE <<>>

\* the text parsed as the declared type when that parse succeeds, null for
\* the type null, the text itself otherwise
Coerced(type, text) ==
    IF type = Chars("null") THEN VNull
    ELSE IF type = Chars("number") /\ ParseNumber(text).ok THEN ParseNumber(text).val
    ELSE IF type = Chars("integer") /\ ParseInteger(text).ok THEN ParseInteger(text).val
    ELSE IF type = Chars("boolean") /\ ParseBoolean(text).ok THEN ParseBoolean(text).val
    ELSE IF type = Chars("object") /\ Unmarshal(text, "obj").ok THEN Unmarshal(text, "obj").val
    ELSE IF type = Chars("array") /\ Unmarshal(text, "arr").ok THEN Unmarshal(text, "arr").val
    ELSE [k |-> "str", v |-> text]

\* the bytes call i consumed
Consumed(i) == Prefix(results[i].rest0, Len(results[i].rest0) - Len(results[i].rest1))

\* the physical record call i returned: the last one of the bytes it consumed
RecordOf(i) ==
    Bind(PhysicalRecords([cr.r EXCEPT !.rest = Consumed(i), !.FieldsPerRecord = -1]),
         LAMBDA rs : rs[Len(rs)].record)

\* the errors csv.Reader reports
CSVReaderErrors == {"bare quote", "extraneous quote", "wrong number of fields"}

\* entry i holds, field by field, the record coerced by the types typeOf gives
CoercedBy(i, typeOf(_, _)) ==
    /\ Len(results[i].ent.value.v) = Len(RecordOf(i))
    /\ \A j \in 1..Len(RecordOf(i)) :
          results[i].ent.value.v[j] = Coerced(typeOf(j, Len(RecordOf(i))), RecordOf(i)[j])

\* no call fails but on an error of csv.Reader
NoDecodeError == \A i \in 1..Len(results) : results[i].kind = "err" => results[i].msg \in CSVReaderErrors

\* C16 as claimed: every field of every entry is its text coerced by the
\* type the schema declares for its column (the text itself when the parse
\* fails or there is no such type), the entry has as many fields as the
\* record, and decoding never fails.
C16_Coercion ==
    pc = "csvread" =>
        /\ NoDecodeError
        /\ \A i \in CSVEntryCalls : CoercedBy(i, LAMBDA j, n : DeclaredType(j))

\* C16 as the code has it: the declared types apply when the schema
\* declares at least as many columns as the record has fields; a longer
\* record is returned as text in every field.
C16_CoercionOrAllText ==
    pc = "csvread" =>
        /\ NoDecodeError
        /\ \A i \in CSVEntryCalls :
              CoercedBy(i, LAMBDA j, n : IF Len(SchemaColumns) < n THEN <<>> ELSE DeclaredType(j))

\* a record whose first field failed its number parse and whose third field
\* parsed as an array has been returned
C16_Witness ==
    /\ pc = "csvread"
    /\ \E i \in CSVEntryCalls :
          /\ Len(results[i].ent.value.v) = 3
          /\ DeclaredType(1) = Chars("number")
          /\ results[i].ent.value.v[1].k = "str"
          /\ results[i].ent.value.v[3].k = "arr"

\* the schema has the nested list of column descriptors
HasColumnList == Field(Field(st.Schema, "items"), "items").k = "arr"

\* the fields of a record as text values
AsText(record) == [j \in 1..Len(record) |-> [k |-> "str", v |-> record[j]]]

\* C17: on a schema without the nested column list the tabular reader is
\* constructed all the same, with no column types, and every entry it
\* returns holds the fields of its record as their original text.
C17_NoColumnListAllText ==
    (pc = "csvread" /\ ~HasColumnList) =>
        /\ cr.types = <<>>
        /\ \A i \in CSVEntryCalls : results[i].ent.value = VArr(AsText(RecordOf(i)))

\* without a column list, a record whose first field reads as a number has
\* been returned
C17_Witness ==
    /\ pc = "csvread"
    /\ ~HasColumnList
    /\ \E i \in CSVEntryCalls : RecordOf(i)[1] = Chars("42")

---------------------------------------------------------------------------
(* The tabular writer *)

\* C18: WriteEntry with a value that is no ordered sequence returns an
\* error and leaves the writer, its buffer and the output stream as they
\* were, so that what follows is written as if the call had not been made.
C18_ShapeCheck ==
    pc \in {"csvwrite", "csvclosed"} =>
        \A i \in WriteCalls :
            wlog[i].ent.value.k # "arr" =>
                /\ wlog[i].err # ""
                /\ wlog[i].w1 = wlog[i].w0
                /\ wlog[i].s1 = wlog[i].s0
                /\ wlog[i].n1 = wlog[i].n0

\* a value that is no sequence has been refused and a row accepted after it
C18_Witness ==
    /\ pc = "csvwrite"
    /\ \E i, j \in WriteCalls :
          /\ i < j
          /\ wlog[i].ent.value.k = "obj" /\ wlog[i].err # ""
          /\ wlog[j].ent.value.k = "arr" /\ wlog[j].err = ""
          /\ wlog[j].w1 # wlog[j].w0

\* the configuration is accepted and requests a header row
HeaderRequested == ValidConfig /\ HeaderMarked

\* the column titles of the schema, "" for a column without one
Titles ==
    [j \in 1..Len(SchemaColumns) |->
        IF Field(SchemaColumns[j], "title").k = "str"
          THEN Field(SchemaColumns[j], "title").v ELSE <<>>]

\* the field separator the configuration asks for
SeparatorAsked ==
    IF ValidConfig /\ st.FormatConfig.separator.k = "str"
      THEN st.FormatConfig.separator.v[1] ELSE ","

\* the titles as a physical record
HeaderLine == csvLine(SeparatorAsked, Titles)

\* the physical records of the rows that calls 1..n of the session had
\* accepted, in call order
RECURSIVE AcceptedLines(_)
AcceptedLines(n) ==
    IF n = 0 THEN <<>>
    ELSE AcceptedLines(n - 1) \o
         (IF wlog[n].op = "WriteEntry" /\ wlog[n].err = ""
            THEN csvLine(SeparatorAsked, encode(wlog[n].ent.value.v))
            ELSE <<>>)

\* the bytes the writer has produced: those the output stream has taken and
\* those still in the csv.Writer's buffer
Produced == out \o cw.w.buf

\* C19: when the configuration requests a header row the writer's output
\* begins with the column titles of the schema as one physical record,
\* there from construction on and followed by the accepted rows only; when
\* it requests none, the output holds the accepted rows and nothing else.
C19_HeaderAtConstruction ==
    pc \in {"csvwrite", "csvclosed"} =>
        Produced = (IF HeaderRequested THEN HeaderLine ELSE <<>>) \o AcceptedLines(Len(wlog))

\* a writer with a header of two titles has accepted a row
C19_Witness ==
    /\ pc = "csvwrite"
    /\ HeaderRequested
    /\ Len(Titles) = 2 /\ Titles[1] = Chars("n")
    /\ \E i \in WriteCalls : wlog[i].err = ""

\* C20: once Close has returned, the output stream has received the header,
\* if any, and every accepted row, each once and in call order, and nothing
\* is left in the writer's buffer.
C20_CloseFlushes ==
    pc = "csvclosed" =>
        /\ out = (IF HeaderRequested THEN HeaderLine ELSE <<>>) \o AcceptedLines(Len(wlog))
        /\ cw.w.buf = <<>>


---------------------------------------------------------------------------
(* The line-ending filter *)

\* the input with a line feed put after every carriage return that no line
\* feed follows
RECURSIVE LoneCRsRepaired(_)
LoneCRsRepaired(in) ==
    IF in = <<>> THEN <<>>
    ELSE IF in[1] = "\r" /\ (Len(in) = 1 \/ in[2] # "\n")
      THEN <<"\r", "\n">> \o LoneCRsRepaired(Tail(in))
    ELSE <<in[1]>> \o LoneCRsRepaired(Tail(in))

\* the bytes the Read calls of the session returned, in order
RECURSIVE Returned(_)
Returned(n) == IF n = 0 THEN <<>> ELSE Returned(n - 1) \o results[n].p

\* C21: whatever buffer sizes (each at least 1) the caller hands to Read,
\* every call returns, the bytes returned so far are the start of the input
\* with a line feed after every lone carriage return, and at the end of the
\* stream they are the whole of it.
C21_FilterResult ==
    pc = "filter" =>
        /\ \A i \in 1..Len(results) : ~results[i].panic
        /\ IsPrefix(Returned(Len(results)), LoneCRsRepaired(cfg.in))
        /\ (FilterDone => Returned(Len(results)) = LoneCRsRepaired(cfg.in))


---------------------------------------------------------------------------
(* Construction *)

ViaFactory == cfg.op \in {"NewEntryReader", "NewEntryWriter"}

\* nothing has gone to or come from a stream, and no codec is in use
Untouched ==
    /\ out = <<>> /\ sink = NoWriter /\ wlog = <<>> /\ results = <<>>
    /\ rd = JSONReader(minReadBufferSize) /\ w = JSONWriter("array")
    /\ cr = NoCSVReader /\ cw = NoCSVWriter

\* C22: NewEntryReader and NewEntryWriter on a structure without a format
\* return the error "structure must have a data format" and no codec; on a
\* structure of format csv, json or cbor with the base array schema they
\* return the codec of that format and no error.
C22_Factory ==
    ViaFactory =>
        /\ st.Format = "" =>
              /\ cfg.err = "structure must have a data format"
              /\ cfg.codec = "" /\ pc = "failed" /\ Untouched
        /\ (st.Format \in {"csv", "json", "cbor"} /\ st.Schema = BaseSchemaArray) =>
              /\ cfg.err = "" /\ cfg.codec = st.Format /\ pc # "failed"

C22_Witness ==
    /\ cfg.op = "NewEntryReader" /\ st.Format = "json" /\ st.Schema = BaseSchemaArray
    /\ pc = "read" /\ \E i \in 1..Len(results) : results[i].kind = "entry"

\* C23: the document constructors, reader and writer alike, called on a
\* structure without a schema return the error "schema required ..." and no
\* codec, with nothing read from or written to the stream.
C23_SchemaRequired ==
    (cfg.op # "" /\ st.Schema = VNull /\ (st.Format = "json" \/ ~ViaFactory)) =>
        /\ cfg.err = IF cfg.op \in {"NewEntryReader", "NewJSONReaderSize"}
                       THEN "schema required for JSON reader"
                       ELSE "schema required for JSON writer"
        /\ cfg.codec = "" /\ pc = "failed" /\ Untouched

C23_Witness ==
    /\ cfg.op = "NewJSONWriter" /\ st.Schema = VNull /\ pc = "failed"


---------------------------------------------------------------------------
(* Instances side by side *)

\* the instance the calls log[1..n] make of a writer alone on its stream
RECURSIVE Alone(_, _, _)
Alone(s, log, n) ==
    IF n = 0 THEN NewInstance(s)
    ELSE Bind(Alone(s, log, n - 1), LAMBDA me :
        IF log[n].op = "Close"
          THEN Bind(CloseCall(me.w, me.sink, me.out), LAMBDA x :
                   [w |-> me.w, sink |-> x.sink, out |-> x.out,
                    log |-> Append(me.log, [op |-> "Close", ent |-> ZeroEntry,
                                            err |-> x.err]),
                    closed |-> TRUE])
          ELSE Bind(WriteEntryCall(me.w, me.sink, me.out, log[n].ent), LAMBDA x :
                   [w |-> x.w, sink |-> x.sink, out |-> x.out,
                    log |-> Append(me.log, [op |-> "WriteEntry", ent |-> log[n].ent,
                                            err |-> x.err]),
                    closed |-> FALSE]))

\* the structure instance i was constructed on
StructureOf(i) ==
    CHOOSE s \in PairStructures : NewInstance(s).w.tlt = inst[i].w.tlt

---------------------------------------------------------------------------
(* The tabular configuration *)

\* bytes 80..BF continue a UTF-8 character begun by an earlier byte
ContinuationBytes == {"A9"}

\* the number of characters of a text
Characters(txt) == Cardinality({i \in 1..Len(txt) : txt[i] \notin ContinuationBytes})

Present(val) == val.k # "null"

BoolOrAbsent(val) == ~Present(val) \/ val.k = "bool"

OneCharacter(val) == val.k = "str" /\ Characters(val.v) = 1

Flag(val) == Present(val) /\ val.v

\* C25: NewCSVOptions on a nil map returns the default options; on a map
\* whose headerRow, lazyQuotes and variadicFields are booleans and whose
\* separator is a text of exactly one character (each where present) it
\* returns options with these values; on a map with a present option of
\* another type, or a separator not one character long, it returns an error
\* and no options.
C25_Options ==
    pc = "parsed" =>
        LET m == st.FormatConfig
            x == results[1]
        IN  IF m.isNil THEN x.ok /\ x.o = ZeroCSVOptions
            ELSE IF /\ BoolOrAbsent(m.headerRow) /\ BoolOrAbsent(m.lazyQuotes)
                    /\ BoolOrAbsent(m.variadicFields)
                    /\ (~Present(m.separator) \/ OneCharacter(m.separator))
              THEN /\ x.ok
                   /\ x.o.HeaderRow = Flag(m.headerRow)
                   /\ x.o.LazyQuotes = Flag(m.lazyQuotes)
                   /\ x.o.VariadicFields = Flag(m.variadicFields)
                   /\ Present(m.separator) => <<x.o.Separator>> = m.separator.v
                   /\ ~Present(m.separator) => x.o.Separator = ""
            ELSE ~x.ok


---------------------------------------------------------------------------
(* Buffer accounting *)

\* the source offset after each of n successive ReadEntry calls, ended by a
\* panic
RECURSIVE OffsetsAll(_, _, _)
OffsetsAll(c, r, n) ==
    IF n = 0 THEN <<>>
    ELSE Bind(ReadEntryCall(c, r), LAMBDA x :
            IF x.res.kind = "panic" THEN <<>>
            ELSE <<Offset(x.r)>> \o OffsetsAll(c, x.r, n - 1))

\* the offsets of the first byte after the tokens each call committed: those
\* of the reader whose buffer holds the whole input, which never extends its
\* look-ahead and discards each token as it accepts it
CommittedOffsets ==
    OffsetsAll(WholeInput(cfg), JSONReader(WholeInput(cfg).size), Len(results))

\* C26: after every call of the document reader the bytes discarded from
\* the source are exactly those up to the end of the last committed token,
\* however often the look-ahead was extended on the way: nothing is skipped
\* and nothing is taken twice.
C26_BufferAccounting ==
    pc = "read" =>
        \A i \in 1..Len(results) :
            (InSession(i) /\ results[i].kind # "panic") =>
                /\ i <= Len(CommittedOffsets)
                /\ results[i].off1 = CommittedOffsets[i]


---------------------------------------------------------------------------
(* Termination of the document reader *)

\* every call that returned an entry took at least one byte from the source
EntriesConsume ==
    \A i \in 1..Len(results) :
        results[i].kind = "entry" =>
            /\ results[i].off0 < results[i].off1
            /\ results[i].off1 <= Len(cfg.in)

\* C27: on every input and with every buffer size each ReadEntry call comes
\* back with an entry, end-of-stream or an error, and a call that returns an
\* entry has consumed input, so that a caller repeating ReadEntry is handed
\* end-of-stream or an error after at most as many entries as the input has
\* bytes.
C27_Termination ==
    pc = "read" =>
        /\ \A i \in 1..Len(results) : results[i].kind \in {"entry", "eof", "err"}
        /\ EntriesConsume
        /\ Cardinality({i \in 1..Len(results) : results[i].kind = "entry"})
              <= Len(cfg.in)


---------------------------------------------------------------------------
(* The permissive fallback *)

\* the bytes a value starts with
ValueStartBytes == {"n", "t", "f", "\"", "-", "{", "["} \cup Digits

\* call i stands at a value position whose first byte after white space b
\* is; "" stands for the end of the input
ValueAt(i, b) ==
    ValueStart(i) >= 0 /\ NextByte(cfg.in, ValueStart(i)) = b

\* C28: in ordered mode, a call whose value position holds, after white
\* space, a byte that starts no value, or nothing because the input is
\* exhausted, decodes the value as null without error: it returns an entry
\* whose value is null.
C28_PermissiveFallback ==
    (pc = "read" /\ cfg.tlt = "array") =>
        \A i \in 1..Len(results) :
            (ValueStart(i) >= 0
                /\ NextByte(cfg.in, ValueStart(i)) \notin ValueStartBytes)
            => /\ results[i].kind = "entry"
               /\ results[i].ent.value = VNull

\* a call has found a comma where a value should start, and the next one
\* the end of the input
C28_Witness ==
    /\ pc = "read" /\ cfg.tlt = "array"
    /\ \E i, j \in 1..Len(results) :
          /\ i < j
          /\ ValueAt(i, ",") /\ results[i].kind = "entry"
          /\ ValueAt(j, "") /\ results[j].kind = "entry"


---------------------------------------------------------------------------
(* White space between tokens *)

\* the outcomes of the calls made so far on the document without the run
PlainOutcomes ==
    ReadAll([cfg EXCEPT !.in = cfg.plain], JSONReader(cfg.size), Len(results))

\* C29: a run of space, tab, carriage return and line feed bytes put
\* between two tokens of a well-formed document (before the opening
\* delimiter, around commas and colons, before the closing delimiter)
\* changes nothing of what the reader returns: the calls return the same
\* entries and the same end-of-stream as on the document without the run,
\* wherever the run falls in the buffer.
C29_WhitespaceInsensitive ==
    pc = "read" =>
        /\ Len(PlainOutcomes) = Len(results)
        /\ \A i \in 1..Len(results) :
              /\ Outcome(results[i]) = PlainOutcomes[i]
              /\ InSession(i) => results[i].kind \in {"entry", "eof"}

\* a session has returned entries and end-of-stream over a run of white
\* space that reaches across the first fill of the buffer
C29_Witness ==
    /\ pc = "read"
    /\ Len(cfg.in) - Len(cfg.plain) = MaxPad
    /\ ~isWhitespace(cfg.in[1])
    /\ \E i, j \in 1..Len(results) :
          /\ results[i].kind = "entry" /\ results[i].off1 > cfg.size
          /\ results[j].kind = "eof"


---------------------------------------------------------------------------
(* The type list of the tabular reader *)

\* the record coerced field by field by the types of the list
CoercedRecord(types, record) ==
    [j \in 1..Len(record) |-> Coerced(types[j], record[j])]

\* C30: a record with more fields than the reader has column types is
\* returned with every field as its original text, the typed columns
\* included, and without error; a record with at most as many fields as
\* there are types has the types applied by position.
C30_TypeListFallback ==
    pc = "csvread" =>
        /\ NoDecodeError
        /\ \A i \in CSVEntryCalls :
              results[i].ent.value =
                  VArr(IF Len(cr.types) < Len(RecordOf(i))
                         THEN AsText(RecordOf(i))
                         ELSE CoercedRecord(cr.types, RecordOf(i)))

\* a reader with the one column type integer has returned the record 1,foo
\* with both fields as text
C30_Witness ==
    /\ pc = "csvread"
    /\ cr.types = <<Chars("integer")>>
    /\ \E i \in CSVEntryCalls :
          /\ RecordOf(i) = <<Chars("1"), Chars("foo")>>
          /\ results[i].ent.value = VArr(<<VStr("1"), VStr("foo")>>)


---------------------------------------------------------------------------
(* Number tokens *)

NumberBytes == Digits \cup {".", "e", "E", "+", "-"}

\* the length of the longest run of number bytes at the start of txt
RECURSIVE RunLength(_)
RunLength(txt) ==
    IF txt # <<>> /\ txt[1] \in NumberBytes THEN 1 + RunLength(Tail(txt)) ELSE 0

\* the number token at offset p of the input
NumberToken(p) == Prefix(Drop(cfg.in, p), RunLength(Drop(cfg.in, p)))

\* call i stands at a value position that starts a number token
AtNumber(i) ==
    /\ ValueStart(i) >= 0
    /\ NextByte(cfg.in, ValueStart(i)) \in Digits \cup {"-"}

IsFloatToken(tok) == \E j \in 1..Len(tok) : tok[j] \in {".", "e", "E"}

\* C31: in ordered mode, a call whose value position starts a number token
\* (the longest run of digits, ".", "e", "E", "+", "-") returns the token's
\* floating-point value when the token holds ".", "e" or "E" and its
\* integer value otherwise, and an error when the token does not parse.
C31_NumberClassification ==
    (pc = "read" /\ cfg.tlt = "array") =>
        \A i \in 1..Len(results) :
            AtNumber(i) =>
                LET tok == NumberToken(ValueStart(i))
                IN  IF IsFloatToken(tok)
                      THEN IF ParseFloat(tok).ok
                             THEN /\ results[i].kind = "entry"
                                  /\ results[i].ent.value = [k |-> "float", v |-> ParseFloat(tok).v]
                             ELSE results[i].kind = "err"
                      ELSE IF Atoi(tok).ok
                             THEN /\ results[i].kind = "entry"
                                  /\ results[i].ent.value = VInt(Atoi(tok).v)
                             ELSE results[i].kind = "err"

\* a token with an exponent that lies across the end of the first buffer
\* has been returned as a floating-point value
C31_Witness ==
    /\ pc = "read" /\ cfg.tlt = "array"
    /\ \E i \in 1..Len(results) :
          /\ AtNumber(i)
          /\ results[i].kind = "entry" /\ results[i].ent.value.k = "float"
          /\ ValueStart(i) < cfg.size
          /\ ValueStart(i) + Len(NumberToken(ValueStart(i))) > cfg.size


\* C32: every Read(p) call of the filter, for every length of p from 0 on
\* and every input, returns with a count between 0 and len(p), having
\* stored bytes at positions of p only; a lone carriage return that takes
\* the last free position of p has its line feed delivered by a later call.
C32_FilterBufferSafety ==
    pc = "filter" =>
        \A i \in 1..Len(results) :
            /\ ~results[i].panic
            /\ Len(results[i].p) <= results[i].len


---------------------------------------------------------------------------
(* The document writer after a refused entry *)

\* the calls among 1..n that returned no error
AcceptedCalls(n) == {i \in WriteCalls : i <= n /\ wlog[i].err = ""}

\* the entries accepted by calls 1..n, each but the first of them after
\* one comma
RECURSIVE AcceptedEntries(_)
AcceptedEntries(n) ==
    IF n = 0 THEN <<>>
    ELSE IF n \in AcceptedCalls(n)
      THEN AcceptedEntries(n - 1)
           \o (IF AcceptedCalls(n - 1) # {} THEN <<",">> ELSE <<>>)
           \o EncodedEntry(w.tlt, wlog[n].ent)
    ELSE AcceptedEntries(n - 1)

\* the output stream took every write: the calls that failed did so on the
\* entry's key or value
FailuresAreRefusals == sink.failAt = 0 \/ sink.failAt > sink.n

\* C33: after WriteEntry calls of which some were refused (empty key,
\* repeated key, value that cannot be encoded) and Close, the output is the
\* opening delimiter, the encodings of the accepted entries and of no
\* others with one comma between neighbours, and the closing delimiter: a
\* refused call puts no comma before or after itself.
C33_WellFormedAfterRefusal ==
    (pc = "closed" /\ CloseOk /\ FailuresAreRefusals) =>
        out = <<OpenDelim(w.tlt)>> \o AcceptedEntries(Len(wlog)) \o <<CloseDelim(w.tlt)>>


\* C34: the keyed writer takes a key for written only when the entry went
\* out: a call refused as a repetition of its key comes after a call that
\* wrote an entry with that key, not merely after one that failed on the
\* value or on the output stream.
C34_KeyRecordedWhenEmitted ==
    (pc \in {"write", "closed"} /\ w.tlt = "object") =>
        \A i \in WriteCalls :
            wlog[i].err = "key already written" =>
                \E j \in WriteCalls :
                    /\ j < i
                    /\ wlog[j].ent.key = wlog[i].ent.key
                    /\ wlog[j].err = ""


\* C35: end-of-stream is final: once a ReadEntry call has returned
\* end-of-stream, no later call on the same reader returns an entry, whatever
\* bytes follow the closing delimiter.
C35_EndOfStreamIsFinal ==
    pc = "read" =>
        \A i \in 1..Len(results) : \A j \in 1..Len(results) :
            (i < j /\ results[i].kind = "eof") => results[j].kind # "entry"


\* the WriteEntry calls of the tabular session that accepted their row
AcceptedRows == {i \in 1..Len(wlog) : wlog[i].op = "WriteEntry" /\ wlog[i].err = ""}

\* the k-th smallest member of a set of call numbers
RECURSIVE Nth(_, _)
Nth(S, k) ==
    IF k = 1 THEN CHOOSE i \in S : \A j \in S : i <= j
    ELSE Nth(S \ {CHOOSE i \in S : \A j \in S : i <= j}, k - 1)

\* the writer was closed on a stream that took every write, and the reader
\* on its output was read to the end of the stream
WrittenAndReadBack ==
    /\ pc = "csvread"
    /\ wlog[Len(wlog)].err = ""
    /\ sink.failAt = 0 \/ sink.failAt > sink.n
    /\ results # <<>>
    /\ results[Len(results)].kind = "eof"

\* C36: on a tabular structure with the header row enabled, the rows the
\* writer accepted, read back by the reader on the same structure, come out
\* as exactly as many entries in the same order: the header record is not
\* among them and no row is discarded in its place, also when the schema
\* yields no column titles and when the configuration holds an invalid
\* option.
C36_HeaderAgreement ==
    (WrittenAndReadBack /\ st.Format = "csv" /\ HeaderMarked) =>
        /\ \A i \in 1..Len(results) : results[i].kind # "err"
        /\ Cardinality(CSVEntryCalls) = Cardinality(AcceptedRows)
        /\ \A k \in 1..Cardinality(CSVEntryCalls) :
              results[Nth(CSVEntryCalls, k)].ent.value =
                  VArr(decode(cr.types, encode(wlog[Nth(AcceptedRows, k)].ent.value.v)))


\* C37: for every CSVOptions value o, whatever its three flags and its
\* separator, NewCSVOptions(o.Map()) succeeds and returns options equal to o.
C37_OptionsRoundTrip ==
    pc = "parsed" => (results[1].ok /\ results[1].o = cfg)

===========================================================================
